---- MODULE Spec2Model ----
(***************************************************************************)
(* State-machine model of the BigChicken scene editor: the frame loop      *)
(* (drain events, update, render), the input dispatcher, the dev-mode      *)
(* operations (spawn, delete, held-key manipulation, property edits), the  *)
(* editor sidebar and the scene hierarchy panel.                           *)
(*                                                                         *)
(* Numbers.  Lengths and positions are integers in hundredths of a world   *)
(* unit (0.5 is 50), scales in thousandths (1.0 is 1000), angles in tenths  *)
(* of a degree, time in milliseconds.  Text is a sequence of one-character *)
(* strings.  A viewport click carries the world-space ray direction that   *)
(* unprojecting its pixel yields; directions are axis-aligned unit vectors *)
(* so that the ray arithmetic stays exact.                                 *)
(***************************************************************************)
EXTENDS Integers, Sequences, FiniteSets, TLC

\* ------------------------------------------------------------------ bounds
\* Objects the scene may hold at once.
MaxObjects == 2
\* Spawns per session (sum of the three name counters).
MaxSpawns == 2
\* Characters a text field may hold.
MaxText == 4
\* Characters the new-folder input may hold.
MaxFolderText == 1
\* Folders besides "Scene".
MaxFolders == 1
\* Camera steps (of speed*dt) away from the start position, per axis.
MaxCamSteps == 1
\* Saves counted within one tick.
MaxSaves == 2

\* --------------------------------------------------------- program constants
MOVE_SPEED == 2
CAMERA_SPEED == 5
SPAWN_DISTANCE == 5
PICK_RADIUS_FACTOR == 50
PICK_RADIUS_MIN == 5
PITCH_LIMIT == 890
\* Frame time of the modelled ticks, in milliseconds.
DtMs == 200

Unit == 10 * 10
ScaleUnit == 10 * 10 * 10

\* ------------------------------------------------------------------ vectors
Vec(x, y, z) == <<x, y, z>>
VAdd(a, b) == <<a[1] + b[1], a[2] + b[2], a[3] + b[3]>>
VSub(a, b) == <<a[1] - b[1], a[2] - b[2], a[3] - b[3]>>
VMul(a, k) == <<a[1] * k, a[2] * k, a[3] * k>>
VDot(a, b) == a[1] * b[1] + a[2] * b[2] + a[3] * b[3]
Max2(a, b) == IF a >= b THEN a ELSE b
Min2(a, b) == IF a <= b THEN a ELSE b
Abs(a) == IF a < 0 THEN -a ELSE a

\* Largest r with r*r <= n (n >= 0), by bisection on [lo, hi].
RECURSIVE ISqrtIn(_, _, _)
ISqrtIn(n, lo, hi) ==
    IF lo >= hi THEN lo
    ELSE LET mid == (lo + hi + 1) \div 2
         IN  IF mid * mid <= n THEN ISqrtIn(n, mid, hi) ELSE ISqrtIn(n, lo, mid - 1)
ISqrt(n) == ISqrtIn(n, 0, Min2(n, 46340))

\* --------------------------------------------------------------------- text
\* Text is a sequence of one-character strings.
DigitChars == <<"0", "1", "2", "3", "4", "5", "6", "7", "8", "9">>
IsDigit(c) == \E i \in 1..10 : DigitChars[i] = c
DigitVal(c) == (CHOOSE i \in 1..10 : DigitChars[i] = c) - 1

RECURSIVE Digits(_)
Digits(n) == IF n < 10 THEN <<DigitChars[n + 1]>>
             ELSE Digits(n \div 10) \o <<DigitChars[(n % 10) + 1]>>

RECURSIVE Pow10(_)
Pow10(d) == IF d = 0 THEN 1 ELSE 10 * Pow10(d - 1)

RECURSIVE ZeroPad(_, _)
ZeroPad(t, d) == IF Len(t) >= d THEN t ELSE ZeroPad(<<"0">> \o t, d)

\* round(): the multiple of step nearest to v, a tie going to the even multiple.
RoundTo(v, step) ==
    LET low == (v \div step) * step
        twice == 2 * (v - low)
    IN  IF twice < step THEN low \div step
        ELSE IF twice > step THEN low \div step + 1
        ELSE IF (low \div step) % 2 = 0 THEN low \div step ELSE low \div step + 1

\* f'{x:.<d>f}' of the number v / 10^d.
FormatFixed(v, d) ==
    (IF v < 0 THEN <<"-">> ELSE <<>>)
        \o Digits(Abs(v) \div Pow10(d)) \o <<".">> \o ZeroPad(Digits(Abs(v) % Pow10(d)), d)

IsSpace(c) == c = " "
RECURSIVE LStrip(_)
LStrip(t) == IF t # <<>> /\ IsSpace(Head(t)) THEN LStrip(Tail(t)) ELSE t
RECURSIVE RStrip(_)
RStrip(t) == IF t # <<>> /\ IsSpace(t[Len(t)]) THEN RStrip(SubSeq(t, 1, Len(t) - 1)) ELSE t
\* str.strip()
Strip(t) == RStrip(LStrip(t))

AllDigits(t) == \A i \in 1..Len(t) : IsDigit(t[i])
RECURSIVE DigitsVal(_)
DigitsVal(t) == IF t = <<>> THEN 0 ELSE DigitsVal(SubSeq(t, 1, Len(t) - 1)) * 10 + DigitVal(t[Len(t)])

DotAt(t) == IF \E i \in 1..Len(t) : t[i] = "." THEN CHOOSE i \in 1..Len(t) : t[i] = "." ELSE 0
FracLen(t) == IF DotAt(t) = 0 THEN 0 ELSE Len(t) - DotAt(t)

\* float(text) for plain decimal literals [sign] digits [. digits]; the value in
\* units of 10^-d (digits beyond d decimals are dropped).  ok = FALSE is ValueError.
\* ParseDigits reads the integer part ip and the fraction fp of the literal.
ParseDigits(neg, ip, fp, d) ==
    LET fpd  == SubSeq(fp \o ZeroPad(<<>>, d), 1, d)
        ok   == AllDigits(ip) /\ AllDigits(fp) /\ Len(ip) + Len(fp) > 0
        mag  == DigitsVal(ip) * Pow10(d) + DigitsVal(fpd)
    IN  [ok |-> ok, value |-> IF ok THEN (IF neg THEN -mag ELSE mag) ELSE 0]
\* ParseUnsigned splits the literal after its sign at the decimal point.
ParseUnsigned(neg, body, dot, d) ==
    ParseDigits(neg,
                IF dot = 0 THEN body ELSE SubSeq(body, 1, dot - 1),
                IF dot = 0 THEN <<>> ELSE SubSeq(body, dot + 1, Len(body)),
                d)
\* ParseSigned takes the sign off the stripped literal s.
ParseSigned(s, body, d) == ParseUnsigned(s # <<>> /\ Head(s) = "-", body, DotAt(body), d)
ParseStripped(s, d) ==
    ParseSigned(s, IF s # <<>> /\ Head(s) \in {"-", "+"} THEN Tail(s) ELSE s, d)
ParseFloat(text, d) == ParseStripped(Strip(text), d)

\* Folder names are text.
SceneFolder == <<"S", "c", "e", "n", "e">>

None == "None"

\* ------------------------------------------------------------ scene objects
\* A mesh handle: its id names the GPU resources, its transform is its own.
\* Alpha is in units of 1/10000, colours and light intensity in thousandths.
AlphaUnit == Unit * Unit
ColorUnit == ScaleUnit
CubeColor == Vec(490, 480, ColorUnit)
TriangleColor == Vec(ColorUnit, 400, 200)
LightColor == Vec(ColorUnit, ColorUnit, 900)
\* The colour a primitive of a kind is created with when none is given.
DefaultColor(fmt) ==
    IF fmt = "cube" THEN CubeColor ELSE IF fmt = "triangle" THEN TriangleColor ELSE LightColor
NoRotation == Vec(0, 0, 0)

\* Mesh.__init__ sets alpha = 1.0 and an identity transform; rotation stands for
\* the quaternion by its Euler angles in degrees.  Only primitives read color.
Mesh(id, position, scale) ==
    [id |-> id, position |-> position, scale |-> scale, alpha |-> AlphaUnit,
     color |-> Vec(0, 0, 0), rotation |-> NoRotation]
\* Cube(ctx, color=...), Triangle(ctx, color=...), LightOrb(ctx, color=...)
Colored(mesh, color) == [mesh EXCEPT !.color = color]

\* SceneObject.__init__: alpha is stored as given and applied to every mesh.
SceneObjectAlpha(name, fmt, meshes, is_light, folder, alpha) ==
    [name |-> name, format |-> fmt,
     meshes |-> [i \in 1..Len(meshes) |-> [meshes[i] EXCEPT !.alpha = alpha]],
     is_light |-> is_light, folder |-> folder, alpha |-> alpha,
     model_path |-> "", light_intensity |-> ColorUnit, light_color |-> LightColor]
\* SceneObject.__init__ with the default alpha=1.0.
SceneObject(name, fmt, meshes, is_light, folder) ==
    SceneObjectAlpha(name, fmt, meshes, is_light, folder, AlphaUnit)

\* max(0.0, min(1.0, value))
ClampAlpha(value) == IF value > AlphaUnit THEN AlphaUnit ELSE IF value < 0 THEN 0 ELSE value
\* SceneObject.alpha setter: the clamped value goes to the object and every mesh.
SetAlpha(obj, value) ==
    [obj EXCEPT !.alpha = ClampAlpha(value),
                !.meshes = [i \in 1..Len(obj.meshes) |->
                               [obj.meshes[i] EXCEPT !.alpha = ClampAlpha(value)]]]

\* SceneObject.position / SceneObject.scale: read the first mesh, write every mesh.
ObjPosition(obj) == IF obj.meshes # <<>> THEN obj.meshes[1].position ELSE Vec(0, 0, 0)
ObjScale(obj) ==
    IF obj.meshes # <<>> THEN obj.meshes[1].scale ELSE Vec(ScaleUnit, ScaleUnit, ScaleUnit)
\* Only the first mesh of the object takes the position.
SetFirstPosition(obj, value) ==
    [obj EXCEPT !.meshes = [i \in 1..Len(obj.meshes) |->
        IF i = 1 THEN [obj.meshes[i] EXCEPT !.position = value] ELSE obj.meshes[i]]]

\* SceneObject.position and SceneObject.scale setters: every mesh takes the value.
SetPosition(obj, value) ==
    [obj EXCEPT !.meshes = [i \in 1..Len(obj.meshes) |-> [obj.meshes[i] EXCEPT !.position = value]]]
SetScale(obj, value) ==
    [obj EXCEPT !.meshes = [i \in 1..Len(obj.meshes) |-> [obj.meshes[i] EXCEPT !.scale = value]]]
\* SceneObject.set_rotation_euler: every mesh takes the rotation.
SetRotationEuler(obj, rot) ==
    [obj EXCEPT !.meshes = [i \in 1..Len(obj.meshes) |-> [obj.meshes[i] EXCEPT !.rotation = rot]]]
\* SceneObject.rotation reads the first mesh.
ObjRotation(obj) == IF obj.meshes # <<>> THEN obj.meshes[1].rotation ELSE NoRotation

\* Only the first mesh of the object.
FirstMeshOnly(obj) == {obj.meshes[1].id}

MeshIds(obj) == {obj.meshes[i].id : i \in 1..Len(obj.meshes)}
RECURSIVE AllMeshIds(_)
AllMeshIds(objs) ==
    IF objs = <<>> THEN <<>>
    ELSE [i \in 1..Len(Head(objs).meshes) |-> Head(objs).meshes[i].id] \o AllMeshIds(Tail(objs))

\* Name of the n-th spawned primitive of a kind: f"cube_{n}".
SpawnName(prefix, n) == prefix \o "_" \o ToString(n)

\* ---------------------------------------------------------------- scene file
\* The model files on disk: os.path.exists, and what the model loader makes of a
\* file: the number of primitives it returns, or an exception for a file it
\* cannot parse.
CrateModel == "models/crate.obj"
GhostModel == "models/ghost.obj"
TornModel == "models/torn.obj"
EmptyModel == "models/empty.obj"
ModelExists(model_path) == model_path \in {CrateModel, TornModel, EmptyModel}
ModelParses(model_path) == model_path # TornModel
ModelGroups(model_path) == IF model_path = CrateModel THEN 2 ELSE 0

IsPrimitive(fmt) == fmt \in {"cube", "triangle", "light"}

\* One entry of the scene file.  A key the entry does not have is has_<key> =
\* FALSE with the default entry.get returns for it; scale_ok = FALSE is a
\* "scale" that is not a list of numbers (null).
Entry(name, fmt, position, model) ==
    [name |-> name, format |-> fmt, position |-> position, rotation |-> NoRotation,
     scale |-> Vec(ScaleUnit, ScaleUnit, ScaleUnit), scale_ok |-> TRUE,
     has_model |-> ~IsPrimitive(fmt), model |-> model,
     has_color |-> FALSE, color |-> Vec(0, 0, 0),
     has_intensity |-> FALSE, intensity |-> ColorUnit,
     has_alpha |-> FALSE, alpha |-> AlphaUnit,
     has_folder |-> FALSE, folder |-> SceneFolder]
\* The entry with an "alpha" value in the file.
EntryAlpha(e, alpha) == [e EXCEPT !.has_alpha = TRUE, !.alpha = alpha]
\* The entry with a "rotation" in degrees, with a "folder", with "scale": null.
EntryRotation(e, rot) == [e EXCEPT !.rotation = rot]
EntryFolder(e, folder) == [e EXCEPT !.has_folder = TRUE, !.folder = folder]
EntryNullScale(e) == [e EXCEPT !.scale_ok = FALSE]

\* No entry is skipped.
NeverSkipped(e) == FALSE
\* load_scene, one entry: is it skipped (model file not found), and does it raise
\* (glm.vec3(*scl) of a null, or the model loader on a file it cannot parse).
EntrySkipped(e) == ~IsPrimitive(e.format) /\ ~ModelExists(e.model)
EntryRaises(e) ==
    IF IsPrimitive(e.format) THEN ~e.scale_ok
    ELSE /\ ModelExists(e.model)
         /\ ~ModelParses(e.model) \/ (ModelGroups(e.model) > 0 /\ ~e.scale_ok)
LoadRaises(entries) == \E i \in 1..Len(entries) : EntryRaises(entries[i])

\* load_scene, the meshes of one entry: a primitive in the entry's colour (or its
\* kind's colour), or one ModelMesh per primitive of the model file.
LoadMeshes(e, first_id) ==
    IF IsPrimitive(e.format)
    THEN <<Colored(Mesh(first_id, e.position, e.scale),
                   IF e.has_color THEN e.color ELSE DefaultColor(e.format))>>
    ELSE [i \in 1..ModelGroups(e.model) |-> Mesh(first_id + i - 1, e.position, e.scale)]
\* load_scene, the SceneObject of one entry that is neither skipped nor raises.
LoadObject(e, meshes) ==
    [SceneObjectAlpha(e.name, e.format, meshes, e.format = "light", e.folder, e.alpha)
        EXCEPT !.model_path = IF IsPrimitive(e.format) THEN "" ELSE e.model,
               !.light_intensity = IF e.format = "light" THEN e.intensity ELSE ColorUnit,
               !.light_color = IF e.format = "light" /\ e.has_color THEN e.color ELSE LightColor]
LoadEntry(e, first_id) ==
    IF e.rotation # NoRotation
    THEN SetRotationEuler(LoadObject(e, LoadMeshes(e, first_id)), e.rotation)
    ELSE LoadObject(e, LoadMeshes(e, first_id))

\* load_scene: the objects, in file order, with mesh ids allocated from first_id.
RECURSIVE LoadScene(_, _)
LoadScene(entries, first_id) ==
    IF entries = <<>> THEN <<>>
    ELSE IF EntrySkipped(Head(entries)) THEN LoadScene(Tail(entries), first_id)
    ELSE <<LoadEntry(Head(entries), first_id)>>
             \o LoadScene(Tail(entries),
                          first_id + Len(LoadMeshes(Head(entries), first_id)))

\* round(x, digits) of x = v / unit, in the same unit; the alphas of the
\* scenarios are no ties.
PyRound(v, unit, digits) == (RoundTo(v * Pow10(digits), unit) * unit) \div Pow10(digits)
RoundVec(v, unit, digits) ==
    Vec(PyRound(v[1], unit, digits), PyRound(v[2], unit, digits), PyRound(v[3], unit, digits))

\* save_scene, the entry written for one object.
SavedEntry(obj) ==
    [name |-> obj.name, format |-> obj.format,
     position |-> RoundVec(ObjPosition(obj), Unit, 3),
     rotation |-> NoRotation,
     scale |-> RoundVec(ObjScale(obj), ScaleUnit, 4), scale_ok |-> TRUE,
     has_model |-> ~IsPrimitive(obj.format),
     model |-> IF ~IsPrimitive(obj.format) THEN obj.model_path ELSE "",
     has_color |-> (obj.format \in {"cube", "triangle"} /\ obj.meshes # <<>>) \/ obj.is_light,
     color |-> IF obj.is_light THEN RoundVec(obj.light_color, ColorUnit, 3)
               ELSE IF obj.format \in {"cube", "triangle"} /\ obj.meshes # <<>>
                    THEN RoundVec(obj.meshes[1].color, ColorUnit, 3)
                    ELSE Vec(0, 0, 0),
     has_intensity |-> obj.is_light,
     intensity |-> IF obj.is_light THEN obj.light_intensity ELSE ColorUnit,
     has_alpha |-> obj.alpha < AlphaUnit,
     alpha |-> IF obj.alpha < AlphaUnit THEN PyRound(obj.alpha, AlphaUnit, 3) ELSE AlphaUnit,
     has_folder |-> obj.folder # SceneFolder,
     folder |-> obj.folder]
\* save_scene, the "objects" list it builds before it opens the file.
SaveData(objs) == [i \in 1..Len(objs) |-> SavedEntry(objs[i])]

\* A file of the scenes directory: whole is FALSE while its text is not a
\* complete JSON document.
SceneFileOf(entries) == [whole |-> TRUE, objects |-> entries]
\* ------------------------------------------------------------------ export
\* The vertex buffer a mesh's get_vbo fills: its floats, and the indices of its
\* index buffer (0: the mesh has none).
Vbo(verts, per_vertex, indices) ==
    [floats |-> verts * per_vertex, per_vertex |-> per_vertex, indices |-> indices]
\* Cube.get_vbo: 6 faces of 2 triangles, 8 floats a vertex.
CUBE_VERTS == 36
CubeVbo == Vbo(CUBE_VERTS, 8, 0)
\* Triangle(ctx, color=...): one triangle in the layout of the lit primitives.
TriangleVbo == Vbo(3, 8, 0)
\* LightOrb.get_vbo: stacks x sectors quads of 2 triangles, 3 floats a vertex.
ORB_STACKS == 10
ORB_SECTORS == 16
LightOrbVbo == Vbo(ORB_STACKS * ORB_SECTORS * 6, 3, 0)
\* ModelMesh.get_vbo / get_vao: the primitives of the crate model are indexed
\* boxes of 24 vertices.
ModelVbo(model_path) == Vbo(24, 8, 36)
\* The buffer of the meshes of an object.
VboOf(obj) ==
    IF obj.format = "cube" THEN CubeVbo
    ELSE IF obj.format = "triangle" THEN TriangleVbo
    ELSE IF obj.format = "light" THEN LightOrbVbo
    ELSE ModelVbo(obj.model_path)

Skipped == [ok |-> FALSE, verts |-> 0, faces |-> 0]
\* _extract_mesh_data: the stride is detected from the number of floats; a mesh
\* that is read has float_count // 8 vertices and the face indices of its index
\* buffer, or 0..num_verts-1.
ExtractMeshData(vbo) ==
    IF vbo.floats % 8 = 0
    THEN [ok |-> TRUE, verts |-> vbo.floats \div 8,
          faces |-> IF vbo.indices > 0 THEN vbo.indices ELSE vbo.floats \div 8]
    ELSE Skipped

\* folder_name.replace(' ', '_').replace('/', '_')
ExportName(folder_name) ==
    [i \in 1..Len(folder_name) |->
        IF folder_name[i] \in {" ", "/"} THEN "_" ELSE folder_name[i]]

\* Lights are exported too.
ExportsLight(obj, folder_name) == obj.folder = folder_name
\* export_folder_to_obj, the filter: getattr(obj, 'folder', 'Scene') ==
\* folder_name and not obj.is_light.
InFolderObjects(obj, folder_name) == obj.folder = folder_name /\ ~obj.is_light
FolderObjects(folder_name, objs) ==
    SelectSeq(objs, LAMBDA obj : InFolderObjects(obj, folder_name))
\* One group "o <name>" with the vertex and face lines of the object's meshes
\* that are not skipped: faces are written three indices at a time.
RECURSIVE SumOf(_)
SumOf(seq) == IF seq = <<>> THEN 0 ELSE Head(seq) + SumOf(Tail(seq))
ExportGroup(obj) ==
    [name |-> obj.name,
     v |-> SumOf([k \in 1..Len(obj.meshes) |-> ExtractMeshData(VboOf(obj)).verts]),
     f |-> SumOf([k \in 1..Len(obj.meshes) |-> ExtractMeshData(VboOf(obj)).faces \div 3])]
\* faces[i + 1], faces[i + 2] past the end of a list whose length is no multiple of 3.
ExportRaises(folder_name, objs) ==
    \E i \in 1..Len(FolderObjects(folder_name, objs)) :
        /\ FolderObjects(folder_name, objs)[i].meshes # <<>>
        /\ ExtractMeshData(VboOf(FolderObjects(folder_name, objs)[i])).faces % 3 # 0
\* The lines of the file: the header's object count and the groups, in order.
ExportFile(folder_name, objs) ==
    [folder |-> folder_name,
     groups |-> [i \in 1..Len(FolderObjects(folder_name, objs)) |->
                    ExportGroup(FolderObjects(folder_name, objs)[i])]]
NoFiles == [name \in {} |-> ExportFile(<<>>, <<>>)]
NoExport == [called |-> FALSE, folder |-> <<>>, none |-> TRUE, path |-> <<>>]
NoExtract == [called |-> FALSE, vbo |-> Vbo(0, 0, 0), data |-> Skipped]

NoWriter == [path |-> <<>>, data |-> <<>>, before |-> SceneFileOf(<<>>), open |-> FALSE]
NoLoad == [path |-> <<>>, data |-> <<>>, ok |-> FALSE, error |-> None, objects |-> <<>>]

\* The scene files a session may start from.
SceneFileEmpty == <<>>
SceneFileCube == <<Entry("cube_1", "cube", Vec(0, 0, 0), "")>>
SceneFileModels ==
    <<Entry("crate", "obj", Vec(0, 0, -100 * Unit), CrateModel),
      Entry("ghost", "obj", Vec(0, 0, 0), GhostModel)>>
SceneFiles == {SceneFileEmpty, SceneFileCube, SceneFileModels}
\* Hand-written scene files whose "alpha" is half, one and a half, and minus a half.
SceneFileGlass == <<EntryAlpha(Entry("pane", "cube", Vec(0, 0, 0), ""), AlphaUnit \div 2)>>
SceneFileBright ==
    <<EntryAlpha(Entry("pane", "cube", Vec(0, 0, 0), ""), AlphaUnit + AlphaUnit \div 2)>>
SceneFileDim == <<EntryAlpha(Entry("pane", "cube", Vec(0, 0, 0), ""), -(AlphaUnit \div 2))>>

\* Static renderables built by _build_scene: the grid floor and the orbiting light.
StaticObjects == <<1, 2>>
FirstMeshId == Len(StaticObjects) + 1

\* A list of the static objects alone.
StaticOnly(objs) == StaticObjects

\* _rebuild_renderables
Renderables(objs) == StaticObjects \o AllMeshIds(objs)

\* -------------------------------------------------------------------- camera
\* front for yaw/pitch in tenths of a degree; yaw is a multiple of 90 degrees and
\* pitch is 0 or at its clamp, where front is taken as the vertical axis.
Front(yaw, pitch) ==
    IF pitch >= PITCH_LIMIT THEN Vec(0, 1, 0)
    ELSE IF pitch <= -PITCH_LIMIT THEN Vec(0, -1, 0)
    ELSE CASE yaw % 3600 = 0    -> Vec(1, 0, 0)
           [] yaw % 3600 = 900  -> Vec(0, 0, 1)
           [] yaw % 3600 = 1800 -> Vec(-1, 0, 0)
           [] yaw % 3600 = 2700 -> Vec(0, 0, -1)
\* right = normalize(cross(front, world_up))
Right(yaw) ==
    CASE yaw % 3600 = 0    -> Vec(0, 0, 1)
      [] yaw % 3600 = 900  -> Vec(-1, 0, 0)
      [] yaw % 3600 = 1800 -> Vec(0, 0, -1)
      [] yaw % 3600 = 2700 -> Vec(1, 0, 0)

CameraStart == [position |-> Vec(0, 5 * Unit, 15 * Unit), yaw |-> -900, pitch |-> 0]

\* ----------------------------------------------------------------- variables
VARIABLES
    phase,              \* "events" (draining input) or "render" (update done)
    status,             \* "running", "quit", or the exception that ended the process
    cursor_mode, dev_mode, selected_index,
    scene_objects, all_renderables,
    released,           \* ids of the meshes whose GPU resources were released
    released_twice,     \* ids of the meshes released again after their release
    next_mesh,          \* next fresh mesh id
    cube_counter, tri_counter, light_counter,
    placement_mode, ui_visible, current_obj_name, prop_inputs, prop_owner,
    save_as_input, ui_autosave_enabled, autosave_enabled,
    autosave_timer,     \* milliseconds
    current_scene_file, \* the stem of the path scenes/<stem>.json
    hier_visible, adding_folder, new_folder_text, folders, next_order,
    row_rects, export_btn_rects, pending_export,
    show_controls,
    camera,
    held,               \* keys currently held down (pygame.key.get_pressed)
    saves,              \* scene saves written in the current tick
    handled,            \* polled keys whose key-down an event consumer acted on this tick
    applied,            \* polled keys update() acted on this tick
    spawn_count,        \* successful spawns per kind since the session started
    key_moves,          \* updates in which held keys moved the selected object
    disk,               \* the files of the scenes directory, by path
    writer,             \* the save_scene call that has the file open, if any
    loaded,             \* what the last direct load_scene call returned
    exports,            \* the files of the exports directory, by name
    exported,           \* what the last export_folder_to_obj call returned
    extracted           \* what the last direct _extract_mesh_data call returned

engine_vars == <<cursor_mode, dev_mode, selected_index, autosave_enabled, autosave_timer,
                 current_scene_file>>
scene_vars == <<scene_objects, all_renderables, released, released_twice, next_mesh>>
counter_vars == <<cube_counter, tri_counter, light_counter, spawn_count, key_moves>>
editor_vars == <<placement_mode, ui_visible, current_obj_name, prop_inputs, prop_owner,
                 save_as_input, ui_autosave_enabled>>
hier_vars == <<hier_visible, adding_folder, new_folder_text, folders, next_order,
               row_rects, export_btn_rects, pending_export>>
tick_vars == <<saves, handled, applied>>
export_vars == <<exports, exported, extracted>>
file_vars == <<disk, writer, loaded, export_vars>>
vars == <<phase, status, engine_vars, scene_vars, counter_vars, editor_vars, hier_vars,
          show_controls, camera, held, tick_vars, file_vars>>

\* TextInput(...)
TextInput(value) == [text |-> value, active |-> FALSE]
NoProps == [k \in {} |-> 0]

\* SCENE_FILE = 'scenes/demo.json'
SCENE_FILE == <<"d", "e", "m", "o">>

\* GraphicsEngine.__init__ with the scene file's entries and the scenes directory.
InitOn(entries, files) ==
    /\ disk = files
    /\ writer = NoWriter
    /\ loaded = NoLoad
    /\ exports = NoFiles
    /\ exported = NoExport
    /\ extracted = NoExtract
    /\ phase = "events"
    /\ status = "running"
    /\ cursor_mode = FALSE
    /\ dev_mode = FALSE
    /\ selected_index = -1
    /\ scene_objects = LoadScene(entries, FirstMeshId)
    /\ all_renderables = Renderables(scene_objects)
    /\ released = {}
    /\ released_twice = {}
    /\ next_mesh = FirstMeshId + Len(AllMeshIds(scene_objects))
    /\ cube_counter = 0
    /\ tri_counter = 0
    /\ light_counter = 0
    /\ key_moves = 0
    /\ spawn_count = [k \in {"cube", "triangle", "light"} |-> 0]
    /\ placement_mode = None
    /\ ui_visible = FALSE
    /\ current_obj_name = None
    /\ prop_inputs = NoProps
    /\ prop_owner = 0
    /\ save_as_input = TextInput(<<"m", "y", "_", "l", "e", "v", "e", "l">>)
    /\ ui_autosave_enabled = FALSE
    /\ autosave_enabled = FALSE
    /\ autosave_timer = 0
    /\ current_scene_file = SCENE_FILE
    /\ hier_visible = FALSE
    /\ adding_folder = FALSE
    /\ new_folder_text = <<>>
    /\ folders = (SceneFolder :> [open |-> TRUE, order |-> 0])
    /\ next_order = 1
    /\ row_rects = <<>>
    /\ export_btn_rects = <<>>
    /\ pending_export = <<>>
    /\ show_controls = FALSE
    /\ camera = CameraStart
    /\ held = {}
    /\ saves = <<>>
    /\ handled = {}
    /\ applied = {}

\* The scenes directory holds the scene file only.
InitWith(entries) == InitOn(entries, SCENE_FILE :> SceneFileOf(entries))

Init == \E entries \in SceneFiles : InitWith(entries)
Running == status = "running"

\* ------------------------------------------------------------------ DevMode
Kinds == {"cube", "triangle", "light"}
Prefix(kind) == CASE kind = "cube" -> "cube" [] kind = "triangle" -> "tri" [] kind = "light" -> "light"
CounterOf(kind) ==
    CASE kind = "cube" -> cube_counter [] kind = "triangle" -> tri_counter
      [] kind = "light" -> light_counter

\* A name taken from the number of objects in the scene, not from the counter.
SpawnedNameByLength(kind, counter, objs) == SpawnName(Prefix(kind), Len(objs) + 1)

\* The name spawn_at gives the object, from the kind's counter after its increment.
SpawnedName(kind, counter, objs) == SpawnName(Prefix(kind), counter)

\* The object is put at the position itself, not raised above it.
SpawnPosOnFloor(position) == position

\* spawn_pos = (position.x, position.y + 0.5, position.z)
SpawnPos(position) == Vec(position[1], position[2] + Unit \div 2, position[3])

\* DevMode.spawn_at, with the caller's assignment of the returned index to
\* selected_index.  An unknown type returns -1 and creates nothing.
SpawnAt(obj_type, position) ==
    IF obj_type \in Kinds
    THEN LET n    == CounterOf(obj_type) + 1
             mesh == Colored(Mesh(next_mesh, SpawnPos(position),
                                  Vec(ScaleUnit, ScaleUnit, ScaleUnit)), DefaultColor(obj_type))
             obj  == SceneObject(SpawnedName(obj_type, n, scene_objects), obj_type, <<mesh>>,
                                 obj_type = "light", SceneFolder)
         IN  /\ cube_counter' = IF obj_type = "cube" THEN n ELSE cube_counter
             /\ tri_counter' = IF obj_type = "triangle" THEN n ELSE tri_counter
             /\ light_counter' = IF obj_type = "light" THEN n ELSE light_counter
             /\ spawn_count' = [spawn_count EXCEPT ![obj_type] = @ + 1]
             /\ next_mesh' = next_mesh + 1
             /\ scene_objects' = Append(scene_objects, obj)
             /\ all_renderables' = Renderables(scene_objects')
             /\ current_obj_name' = None
             /\ selected_index' = Len(scene_objects') - 1
             /\ UNCHANGED <<released, released_twice, status, key_moves>>
    ELSE /\ selected_index' = -1
         /\ UNCHANGED <<counter_vars, scene_vars, current_obj_name, status>>

\* A point one unit in front of the camera.
InFrontByOne(cam) == VAdd(cam.position, VMul(Front(cam.yaw, cam.pitch), Unit))

\* DevMode.spawn_in_front
InFront(cam) == VAdd(cam.position, VMul(Front(cam.yaw, cam.pitch), SPAWN_DISTANCE * Unit))
SpawnInFront(obj_type) == SpawnAt(obj_type, InFront(camera))

\* The environment spawns only while the model's bounds leave room.
SpawnRoom ==
    /\ Len(scene_objects) < MaxObjects
    /\ cube_counter + tri_counter + light_counter < MaxSpawns

\* The guard of delete_selected: the indices it returns unchanged.
DeleteIgnores(index, objs) == index < 0

\* list.pop() without the index: the last element goes.
RemoveLast(seq, i) == SubSeq(seq, 1, Len(seq) - 1)

\* scene_objects.pop(selected_index)
RemoveAt(seq, i) == SubSeq(seq, 1, i - 1) \o SubSeq(seq, i + 1, Len(seq))

\* DevMode.delete_selected, with the caller's assignment of the returned index
\* to selected_index.  index counts from 0; scene_objects[index] beyond the end
\* raises IndexError.
DeleteSelected(index) ==
    IF DeleteIgnores(index, scene_objects)
    THEN /\ selected_index' = index
         /\ UNCHANGED <<scene_vars, current_obj_name, status>>
    ELSE IF index >= Len(scene_objects)
    THEN /\ status' = "IndexError"
         /\ UNCHANGED <<scene_vars, current_obj_name, selected_index>>
    ELSE /\ released' = released \cup MeshIds(scene_objects[index + 1])
         /\ released_twice' = released_twice \cup (MeshIds(scene_objects[index + 1]) \cap released)
         /\ scene_objects' = RemoveAt(scene_objects, index + 1)
         /\ current_obj_name' = None
         /\ all_renderables' = Renderables(scene_objects')
         /\ selected_index' = -1
         /\ UNCHANGED <<next_mesh, status>>

\* save_scene: the write itself is not observed, only that it happened.
\* save_scene(current_scene_file, scene_objects): the tick's writes, in order.
SaveScene == saves' = Append(saves, current_scene_file)
SaveRoom == Len(saves) < MaxSaves

Letters ==
    {"a", "b", "c", "d", "e", "f", "g", "h", "i", "j", "k", "l", "m", "n", "o", "p", "q",
     "r", "s", "t", "u", "v", "w", "x", "y", "z"}
\* c.isalnum() or c in ('_', '-')
IsSafeChar(c) == c \in Letters \/ IsDigit(c) \/ c \in {"_", "-"}
Untitled == <<"u", "n", "t", "i", "t", "l", "e", "d">>
\* The stem _save_as makes of the typed file name.
SafeName(filename) ==
    IF SelectSeq(filename, IsSafeChar) = <<>> THEN Untitled ELSE SelectSeq(filename, IsSafeChar)
\* GraphicsEngine._save_as: the scene is written to the new path, which becomes current.
SaveAs(filename) ==
    /\ saves' = Append(saves, SafeName(filename))
    /\ current_scene_file' = SafeName(filename)

\* GraphicsEngine._quit
Quit ==
    /\ status' = "quit"
    /\ released' = released \cup {all_renderables[i] : i \in 1..Len(all_renderables)}
    /\ released_twice' =
          released_twice \cup ({all_renderables[i] : i \in 1..Len(all_renderables)} \cap released)

\* ----------------------------------------------------------------- TextInput
PrintableKeys == {"1", "s", "c", "h", "="}

\* TextInput.handle_event for a key-down; ctrl turns the key's unicode into a
\* control character, which is not printable.
TextKeyDown(field, key, ctrl) ==
    IF ~field.active THEN field
    ELSE IF key \in {"RETURN", "TAB"} THEN [field EXCEPT !.active = FALSE]
    ELSE IF key = "BACKSPACE"
         THEN [field EXCEPT !.text = SubSeq(field.text, 1, Len(field.text) - 1)]
    ELSE IF key = "ESC" THEN [field EXCEPT !.active = FALSE]
    ELSE IF key \in PrintableKeys /\ ~ctrl THEN [field EXCEPT !.text = Append(field.text, key)]
    ELSE field

\* TextInput.handle_event for a mouse-button-down; hit is rect.collidepoint(event.pos).
TextMouseDown(field, hit) == [field EXCEPT !.active = hit]
\* ------------------------------------------------------------------ EditorUI
PropKeys == {"pos_x", "pos_y", "pos_z", "scl_x", "scl_y", "scl_z", "alpha", "folder"}
PosKeys == <<"pos_x", "pos_y", "pos_z">>
SclKeys == <<"scl_x", "scl_y", "scl_z">>

\* One entry of prop_inputs: 'value' and 'field' (has_field = FALSE is field None).
PropInfo(value) == [value |-> value, has_field |-> FALSE, field |-> TextInput(<<>>)]

\* The texts refresh_values and _build_property_inputs format from the object.
FieldMap(obj) ==
    [k \in {"pos_x", "pos_y", "pos_z", "scl_x", "scl_y", "scl_z"} |->
        CASE k = "pos_x" -> FormatFixed(ObjPosition(obj)[1], 2)
          [] k = "pos_y" -> FormatFixed(ObjPosition(obj)[2], 2)
          [] k = "pos_z" -> FormatFixed(ObjPosition(obj)[3], 2)
          [] k = "scl_x" -> FormatFixed(ObjScale(obj)[1], 3)
          [] k = "scl_y" -> FormatFixed(ObjScale(obj)[2], 3)
          [] k = "scl_z" -> FormatFixed(ObjScale(obj)[3], 3)]

\* The dictionary _build_property_inputs builds for obj.
BuiltProps(obj) ==
    [k \in PropKeys |->
        PropInfo(CASE k = "folder" -> obj.folder
                   [] k = "alpha" -> FormatFixed(RoundTo(obj.alpha, Unit), 2)
                   [] OTHER -> FieldMap(obj)[k])]

\* Only the save-as field is asked for the focus.
SaveAsHasFocus == save_as_input.active

\* EditorUI.has_active_input
EditorHasActiveInput ==
    \/ save_as_input.active
    \/ \E k \in DOMAIN prop_inputs : prop_inputs[k].has_field /\ prop_inputs[k].field.active

\* A panel that no point is on.
NeverOnPanel == FALSE

\* EditorUI.is_point_on_panel for a pointer inside the panel's rectangle.
EditorOnPanel == ui_visible

\* EditorUI.handle_event for a key-down: forwarded to every text input.
EditorKeyDown(key, ctrl) ==
    IF ~ui_visible
    THEN UNCHANGED <<save_as_input, prop_inputs>>
    ELSE /\ save_as_input' = TextKeyDown(save_as_input, key, ctrl)
         /\ prop_inputs' = [k \in DOMAIN prop_inputs |->
                IF prop_inputs[k].has_field
                THEN [prop_inputs[k] EXCEPT !.field = TextKeyDown(@, key, ctrl)]
                ELSE prop_inputs[k]]

\* The object update() passes to the editor: the selected one, if the index is valid.
Selected(objs, index) == IF 0 <= index /\ index < Len(objs) THEN <<objs[index + 1]>> ELSE <<>>

\* Identity of an object: the id of its first mesh.
ObjId(obj) == IF obj.meshes # <<>> THEN obj.meshes[1].id ELSE 0

\* ------------------------------------------------------------ SceneHierarchy
\* SceneHierarchy.has_active_input
HierHasActiveInput == adding_folder

\* SceneHierarchy.is_point_on_panel for a pointer inside the panel's rectangle.
HierOnPanel == hier_visible

\* SceneHierarchy._get_sorted_folders
RECURSIVE SortByOrder(_, _)
SortByOrder(fs, names) ==
    IF names = {} THEN <<>>
    ELSE LET first == CHOOSE n \in names : \A m \in names : fs[n].order <= fs[m].order
         IN  <<first>> \o SortByOrder(fs, names \ {first})
SortedFolders(fs) == SortByOrder(fs, DOMAIN fs)

\* SceneHierarchy.ensure_folder
EnsureFolder(st, name) ==
    IF name \in DOMAIN st.folders THEN st
    ELSE [folders |-> [n \in DOMAIN st.folders \cup {name} |->
                          IF n = name THEN [open |-> TRUE, order |-> st.next_order]
                          ELSE st.folders[n]],
          next_order |-> st.next_order + 1]

\* SceneHierarchy.handle_event for a key-down while the new-folder input is open.
HierKeyDown(key, ctrl) ==
    IF ~hier_visible \/ ~adding_folder
    THEN UNCHANGED <<adding_folder, new_folder_text, folders, next_order>>
    ELSE IF key = "RETURN"
    THEN LET name == Strip(new_folder_text)
             st   == IF name # <<>> /\ name \notin DOMAIN folders
                     THEN EnsureFolder([folders |-> folders, next_order |-> next_order], name)
                     ELSE [folders |-> folders, next_order |-> next_order]
         IN  /\ folders' = st.folders
             /\ next_order' = st.next_order
             /\ adding_folder' = FALSE
             /\ UNCHANGED new_folder_text
    ELSE IF key = "ESC"
    THEN /\ adding_folder' = FALSE
         /\ UNCHANGED <<new_folder_text, folders, next_order>>
    ELSE IF key = "BACKSPACE"
    THEN /\ new_folder_text' = SubSeq(new_folder_text, 1, Len(new_folder_text) - 1)
         /\ UNCHANGED <<adding_folder, folders, next_order>>
    ELSE IF key \in PrintableKeys /\ ~ctrl
    THEN /\ new_folder_text' = Append(new_folder_text, key)
         /\ UNCHANGED <<adding_folder, folders, next_order>>
    ELSE UNCHANGED <<adding_folder, new_folder_text, folders, next_order>>
\* --------------------------------------------------------------- input events
Keys == {"ESC", "F1", "F2", "F3", "h", "TAB", "s", "c", "DELETE", "RETURN", "BACKSPACE",
         "1", "UP", "="}
\* The keys update() polls with pygame.key.get_pressed() and the sessions keep down,
\* among Keys; the axis key 1 is let go as soon as it is typed.
PolledKeys == {"s", "UP", "="}

\* InputHandler.set_cursor_mode
SetCursorMode(cursor_on) == cursor_mode' = cursor_on

\* The branch of _handle_key_down the key takes does something.
ShortcutActs(key, ctrl) ==
    \/ key \in {"ESC", "F1", "F2", "h"}
    \/ key \in {"F3", "TAB", "DELETE"} /\ dev_mode
    \/ key = "s" /\ ctrl /\ dev_mode
    \/ key = "c" /\ dev_mode /\ ~cursor_mode

\* InputHandler._handle_key_down
\* Turning dev mode off leaves the cursor mode as it is.
ToggleDevModeOnly ==
    /\ dev_mode' = ~dev_mode
    /\ ui_visible' = dev_mode'
    /\ SetCursorMode(dev_mode' \/ cursor_mode)
    /\ placement_mode' = IF dev_mode' THEN placement_mode ELSE None
\* _handle_key_down, K_F1: dev mode flips, the editor panel and the cursor mode
\* follow it, and turning it off drops the placement.
ToggleDevMode ==
    /\ dev_mode' = ~dev_mode
    /\ ui_visible' = dev_mode'
    /\ SetCursorMode(dev_mode')
    /\ placement_mode' = IF dev_mode' THEN placement_mode ELSE None
HandleKeyDown(key, ctrl) ==
    IF key = "ESC" THEN
        IF cursor_mode
        THEN /\ SetCursorMode(FALSE)
             /\ placement_mode' = None
             /\ UNCHANGED <<status, dev_mode, ui_visible, hier_visible, show_controls, saves,
                            selected_index, current_obj_name, scene_vars, counter_vars>>
        ELSE /\ Quit
             /\ UNCHANGED <<cursor_mode, placement_mode, dev_mode, ui_visible, hier_visible,
                            show_controls, saves, selected_index, current_obj_name,
                            scene_objects, all_renderables, next_mesh, counter_vars>>
    ELSE IF key = "F1" THEN
        /\ ToggleDevMode
        /\ UNCHANGED <<status, hier_visible, show_controls, saves, selected_index,
                       current_obj_name, scene_vars, counter_vars>>
    ELSE IF key = "F2" THEN
        /\ SetCursorMode(~cursor_mode)
        /\ placement_mode' = IF ~cursor_mode' THEN None ELSE placement_mode
        /\ UNCHANGED <<status, dev_mode, ui_visible, hier_visible, show_controls, saves,
                       selected_index, current_obj_name, scene_vars, counter_vars>>
    ELSE IF key = "F3" /\ dev_mode THEN
        /\ hier_visible' = ~hier_visible
        /\ UNCHANGED <<status, cursor_mode, placement_mode, dev_mode, ui_visible,
                       show_controls, saves, selected_index, current_obj_name, scene_vars,
                       counter_vars>>
    ELSE IF key = "h" THEN
        /\ show_controls' = ~show_controls
        /\ UNCHANGED <<status, cursor_mode, placement_mode, dev_mode, ui_visible,
                       hier_visible, saves, selected_index, current_obj_name, scene_vars,
                       counter_vars>>
    ELSE IF (key = "TAB" /\ dev_mode) \/ (key = "s" /\ ctrl /\ dev_mode) THEN
        /\ SaveRoom
        /\ SaveScene
        /\ UNCHANGED <<status, cursor_mode, placement_mode, dev_mode, ui_visible,
                       hier_visible, show_controls, selected_index, current_obj_name,
                       scene_vars, counter_vars>>
    ELSE IF key = "c" /\ dev_mode /\ ~cursor_mode THEN
        /\ SpawnRoom
        /\ SpawnInFront("cube")
        /\ UNCHANGED <<cursor_mode, placement_mode, dev_mode, ui_visible, hier_visible,
                       show_controls, saves>>
    ELSE IF key = "DELETE" /\ dev_mode THEN
        /\ DeleteSelected(selected_index)
        /\ UNCHANGED <<cursor_mode, placement_mode, dev_mode, ui_visible, hier_visible,
                       show_controls, saves, counter_vars>>
    ELSE UNCHANGED <<status, cursor_mode, placement_mode, dev_mode, ui_visible, hier_visible,
                     show_controls, saves, selected_index, current_obj_name, scene_vars,
                     counter_vars>>

\* What a key-down may type or erase: a printable key goes into a focused text
\* shorter than MaxText, a backspace into one at least that long, and a digit into
\* numeric text only within the decimals the integers of the model carry.
FocusedTexts ==
    (IF save_as_input.active THEN {save_as_input.text} ELSE {})
        \cup {prop_inputs[k].field.text :
                k \in {j \in DOMAIN prop_inputs :
                          prop_inputs[j].has_field /\ prop_inputs[j].field.active}}
TypingRoom(key, ctrl) ==
    /\ key \in PrintableKeys /\ ~ctrl =>
        /\ \A text \in FocusedTexts : Len(text) < MaxText
        /\ \A k \in DOMAIN prop_inputs :
              prop_inputs[k].has_field /\ prop_inputs[k].field.active
                  /\ IsDigit(key) /\ k # "folder" =>
                      FracLen(prop_inputs[k].field.text)
                          < (IF k \in {"pos_x", "pos_y", "pos_z", "alpha"} THEN 2 ELSE 3)
    /\ key = "BACKSPACE" => \A text \in FocusedTexts : Len(text) >= MaxText
FolderRoom(key, ctrl) ==
    /\ key \in PrintableKeys /\ ~ctrl => Len(new_folder_text) < MaxFolderText
    /\ key = "RETURN" => Cardinality(DOMAIN folders) <= MaxFolders

\* process_events, one KEYDOWN event.  The key goes down, so it is held from now on.
KeyDown(key, ctrl) ==
    /\ phase = "events" /\ Running
    /\ UNCHANGED file_vars
    /\ key \notin held
    /\ ctrl => key = "s"
    /\ held' = IF key \in PolledKeys THEN held \cup {key} ELSE held
    /\ IF EditorHasActiveInput
       THEN /\ TypingRoom(key, ctrl)
            /\ EditorKeyDown(key, ctrl)
            /\ handled' = handled \cup ({key} \cap PolledKeys)
            /\ UNCHANGED <<status, engine_vars, scene_vars, counter_vars, placement_mode,
                           ui_visible, current_obj_name, hier_vars, show_controls, saves>>
       ELSE IF HierHasActiveInput
       THEN /\ FolderRoom(key, ctrl)
            /\ HierKeyDown(key, ctrl)
            /\ handled' = handled \cup ({key} \cap PolledKeys)
            /\ UNCHANGED <<status, engine_vars, scene_vars, counter_vars, placement_mode,
                           ui_visible, current_obj_name, save_as_input, prop_inputs,
                           hier_visible, row_rects, export_btn_rects, pending_export,
                           show_controls, saves>>
       ELSE /\ HandleKeyDown(key, ctrl)
            /\ handled' = IF ShortcutActs(key, ctrl) THEN handled \cup ({key} \cap PolledKeys)
                          ELSE handled
            /\ UNCHANGED <<autosave_enabled, autosave_timer, current_scene_file, save_as_input, prop_inputs, adding_folder,
                           new_folder_text, folders, next_order, row_rects, export_btn_rects,
                           pending_export>>
    /\ UNCHANGED <<phase, prop_owner, ui_autosave_enabled, camera, applied>>

\* A KEYUP event: process_events ignores it; the key is no longer held.
KeyUp(key) ==
    /\ phase = "events" /\ Running
    /\ UNCHANGED file_vars
    /\ key \in held
    /\ held' = held \ {key}
    /\ UNCHANGED <<phase, status, engine_vars, scene_vars, counter_vars, editor_vars,
                   hier_vars, show_controls, camera, tick_vars>>
\* ----------------------------------------------------------------- raycaster
\* World-space ray directions a click's pixel may unproject to.
Rays == {Vec(0, -1, 0), Vec(0, 0, -1)}

\* screen_to_floor, from the unprojected ray on: <<hit>>, or <<>> for None.
\* |ray_dir.y| < 1e-6 is ray_dir.y = 0 for the directions of the model.
ScreenToFloor(cam, ray_dir) ==
    IF ray_dir[2] = 0 THEN <<>>
    ELSE LET t == (-cam.position[2]) \div ray_dir[2]
         IN  IF t < 0 THEN <<>> ELSE <<VAdd(cam.position, VMul(ray_dir, t))>>

\* radius = max(max(scl.x, scl.y, scl.z) * 50.0, 5.0), in hundredths.
PickRadius(scl) ==
    Max2((Max2(Max2(scl[1], scl[2]), scl[3]) * PICK_RADIUS_FACTOR * Unit) \div ScaleUnit,
         PICK_RADIUS_MIN * Unit)

\* _ray_sphere_test for a unit ray direction: <<t>>, or <<>> for None.  The square
\* root is taken down to the next hundredth.
RaySphereTest(ray_origin, ray_dir, center, radius) ==
    LET oc   == VSub(ray_origin, center)
        a    == VDot(ray_dir, ray_dir)
        b    == 2 * VDot(oc, ray_dir)
        c    == VDot(oc, oc) - radius * radius
        disc == b * b - 4 * a * c
    IN  IF disc < 0 THEN <<>>
        ELSE LET sqrt_disc == ISqrt(disc)
                 t1 == (-b - sqrt_disc) \div (2 * a)
                 t2 == (-b + sqrt_disc) \div (2 * a)
                 t  == IF t1 > 0 THEN t1 ELSE t2
             IN  IF t > 0 THEN <<t>> ELSE <<>>

\* The first object the ray hits is picked.
RECURSIVE PickFirstHit(_, _, _, _, _, _)
PickFirstHit(ray_origin, ray_dir, objs, i, best_t, best_idx) ==
    IF i > Len(objs) THEN best_idx
    ELSE IF RaySphereTest(ray_origin, ray_dir, ObjPosition(objs[i]),
                          PickRadius(ObjScale(objs[i]))) # <<>>
         THEN i - 1
         ELSE PickFirstHit(ray_origin, ray_dir, objs, i + 1, best_t, best_idx)
\* _pick_from_ray: the loop from object i on, with the best hit so far
\* (best_t = -1 stands for infinity).
RECURSIVE PickLoop(_, _, _, _, _, _)
PickLoop(ray_origin, ray_dir, objs, i, best_t, best_idx) ==
    IF i > Len(objs) THEN best_idx
    ELSE LET hit == RaySphereTest(ray_origin, ray_dir, ObjPosition(objs[i]),
                                  PickRadius(ObjScale(objs[i])))
         IN  IF hit # <<>> /\ (best_t < 0 \/ hit[1] < best_t)
             THEN PickLoop(ray_origin, ray_dir, objs, i + 1, hit[1], i - 1)
             ELSE PickLoop(ray_origin, ray_dir, objs, i + 1, best_t, best_idx)
PickFromRay(ray_origin, ray_dir, objs) == PickLoop(ray_origin, ray_dir, objs, 1, -1, -1)

\* The ray points down from the camera, whatever it faces.
PickObjectBelow(cam, objs) == PickFromRay(cam.position, Vec(0, -1, 0), objs)
\* pick_object: the ray along the camera's front.
PickObject(cam, objs) == PickFromRay(cam.position, Front(cam.yaw, cam.pitch), objs)
\* pick_object_from_screen, from the unprojected ray on.
PickObjectFromScreen(cam, ray_dir, objs) == PickFromRay(cam.position, ray_dir, objs)
\* ------------------------------------------------------------- mouse buttons
\* Where a click's pixel lies: inside the editor panel's rectangle, inside the
\* hierarchy panel's rectangle, or elsewhere in the window.
Areas == {"editor", "hier", "view"}
\* The property fields the pointer clicks on.
ClickFields == {"pos_x", "pos_y", "alpha", "folder"}
\* What the pointer is over inside the editor panel's rectangle.
EditorTargets ==
    {"spawn_cube", "spawn_triangle", "spawn_light", "save_as_button", "autosave_toggle",
     "save_as_input", "blank"} \cup ClickFields
SpawnButton(target) ==
    CASE target = "spawn_cube" -> "cube" [] target = "spawn_triangle" -> "triangle"
      [] target = "spawn_light" -> "light" [] OTHER -> None
\* Mouse buttons: 1 is the primary button, 4 a wheel step.
Buttons == {1, 4}

\* EditorUI.handle_event for a mouse-button-down on the visible panel, with the
\* engine's handling of the action it returns (save_as, autosave_toggle).
EditorMouseDown(target, button) ==
    IF button = 1 /\ SpawnButton(target) # None
    THEN /\ placement_mode' = IF placement_mode = SpawnButton(target) THEN None
                              ELSE SpawnButton(target)
         /\ UNCHANGED <<saves, ui_autosave_enabled, autosave_enabled, autosave_timer, current_scene_file, save_as_input,
                        prop_inputs>>
    ELSE IF button = 1 /\ target = "save_as_button"
    THEN /\ SaveRoom
         /\ SaveAs(save_as_input.text)
         /\ UNCHANGED <<placement_mode, ui_autosave_enabled, autosave_enabled, autosave_timer,
                        save_as_input, prop_inputs>>
    ELSE IF button = 1 /\ target = "autosave_toggle"
    THEN /\ ui_autosave_enabled' = ~ui_autosave_enabled
         /\ autosave_enabled' = ui_autosave_enabled'
         /\ autosave_timer' = 0
         /\ UNCHANGED <<placement_mode, saves, current_scene_file, save_as_input, prop_inputs>>
    ELSE /\ save_as_input' = TextMouseDown(save_as_input, target = "save_as_input")
         /\ prop_inputs' = [k \in DOMAIN prop_inputs |->
                IF prop_inputs[k].has_field
                THEN [prop_inputs[k] EXCEPT !.field = TextMouseDown(@, target = k)]
                ELSE prop_inputs[k]]
         /\ UNCHANGED <<placement_mode, saves, ui_autosave_enabled, autosave_enabled, autosave_timer, current_scene_file>>

\* What the pointer is over inside the hierarchy panel's rectangle: a button or a
\* row laid out by the last draw (i indexes the list of rectangles), or nothing.
HierTargets ==
    {[kind |-> "add_folder", i |-> 0], [kind |-> "blank", i |-> 0]}
        \cup {[kind |-> "export", i |-> i] : i \in 1..Len(export_btn_rects)}
        \cup {[kind |-> "delete", i |-> i] :
                 i \in {j \in 1..Len(export_btn_rects) : export_btn_rects[j] # SceneFolder}}
        \cup {[kind |-> "row", i |-> i] : i \in 1..Len(row_rects)}

\* The objects stay in the folder that goes.
DeleteFolderKeepsObjects(folder_name, objs) == objs

\* SceneHierarchy._delete_folder: the objects afterwards.
DeleteFolderObjects(folder_name, objs) ==
    IF folder_name = SceneFolder THEN objs
    ELSE [i \in 1..Len(objs) |->
            IF objs[i].folder = folder_name THEN [objs[i] EXCEPT !.folder = SceneFolder]
            ELSE objs[i]]
\* SceneHierarchy._delete_folder: the folder set afterwards.
DeleteFolderFolders(folder_name, fs) ==
    IF folder_name = SceneFolder THEN fs
    ELSE [n \in DOMAIN fs \ {folder_name} |-> fs[n]]

\* The selection change InputHandler makes of the index the hierarchy returned.
\* Printing scene_objects[new_idx].name raises IndexError beyond the end.
HierSelect(new_idx) ==
    IF new_idx # selected_index
    THEN /\ selected_index' = new_idx
         /\ current_obj_name' = None
         /\ status' = IF new_idx >= Len(scene_objects) THEN "IndexError" ELSE status
    ELSE UNCHANGED <<selected_index, current_obj_name, status>>

\* SceneHierarchy.handle_event for a mouse-button-down on the visible panel, with
\* InputHandler's use of the returned index.
HierMouseDown(target, button) ==
    IF button = 1 /\ target.kind = "add_folder"
    THEN /\ adding_folder' = TRUE
         /\ new_folder_text' = <<>>
         /\ UNCHANGED <<pending_export, folders, scene_objects, selected_index,
                        current_obj_name, status>>
    ELSE IF button = 1 /\ target.kind = "export"
    THEN /\ pending_export' = export_btn_rects[target.i]
         /\ UNCHANGED <<adding_folder, new_folder_text, folders, scene_objects,
                        selected_index, current_obj_name, status>>
    ELSE IF button = 1 /\ target.kind = "delete"
    THEN /\ scene_objects' = DeleteFolderObjects(export_btn_rects[target.i], scene_objects)
         /\ folders' = DeleteFolderFolders(export_btn_rects[target.i], folders)
         /\ UNCHANGED <<adding_folder, new_folder_text, pending_export, selected_index,
                        current_obj_name, status>>
    ELSE IF button = 1 /\ target.kind = "row" /\ row_rects[target.i].item_type = "folder"
    THEN IF row_rects[target.i].folder \in DOMAIN folders
         THEN /\ folders' = [folders EXCEPT ![row_rects[target.i].folder].open = ~@]
              /\ UNCHANGED <<adding_folder, new_folder_text, pending_export, scene_objects,
                             selected_index, current_obj_name, status>>
         ELSE /\ status' = "KeyError"
              /\ UNCHANGED <<adding_folder, new_folder_text, pending_export, folders,
                             scene_objects, selected_index, current_obj_name>>
    ELSE IF button = 1 /\ target.kind = "row"
    THEN /\ HierSelect(row_rects[target.i].index)
         /\ UNCHANGED <<adding_folder, new_folder_text, pending_export, folders,
                        scene_objects>>
    ELSE UNCHANGED <<adding_folder, new_folder_text, pending_export, folders,
                     scene_objects, selected_index, current_obj_name, status>>

\* A selection update that keeps the editor's cache.
PickSelectKeepsCache(idx) ==
    /\ selected_index' = IF idx >= 0 THEN idx ELSE -1
    /\ UNCHANGED current_obj_name

\* The selection update after picking, in both modes.
PickSelect(idx) ==
    IF idx >= 0
    THEN /\ selected_index' = idx
         /\ current_obj_name' = None
    ELSE IF selected_index >= 0
    THEN /\ selected_index' = -1
         /\ current_obj_name' = None
    ELSE UNCHANGED <<selected_index, current_obj_name>>

\* The viewport branch of _handle_mouse_down in cursor mode.
ViewportMouseDown(ray_dir) ==
    IF placement_mode # None
    THEN /\ SpawnRoom
         /\ IF ScreenToFloor(camera, ray_dir) # <<>>
            THEN SpawnAt(placement_mode, ScreenToFloor(camera, ray_dir)[1])
            ELSE SpawnInFront(placement_mode)
         /\ placement_mode' = None
    ELSE IF dev_mode
    THEN /\ PickSelect(PickObjectFromScreen(camera, ray_dir, scene_objects))
         /\ UNCHANGED <<placement_mode, scene_vars, counter_vars, status>>
    ELSE UNCHANGED <<placement_mode, scene_vars, counter_vars, status, selected_index,
                     current_obj_name>>

\* The clicks the pointer makes: by area, what it is over there, the button, and the
\* world-space ray its pixel unprojects to.
Click(area, target, i, button, ray_dir) ==
    [area |-> area, target |-> target, i |-> i, button |-> button, ray_dir |-> ray_dir]
EditorClicks(targets) ==
    {Click("editor", t, 0, b, Vec(0, -1, 0)) : t \in targets, b \in Buttons}
HierClicks(kinds) ==
    {Click("hier", h.kind, h.i, b, Vec(0, -1, 0)) :
        h \in {t \in HierTargets : t.kind \in kinds}, b \in Buttons}
ViewClicks == {Click("view", "blank", 0, b, r) : b \in Buttons, r \in Rays}

\* InputHandler._handle_mouse_down, one MOUSEBUTTONDOWN event.
MouseDown(click) ==
    /\ phase = "events" /\ Running
    /\ UNCHANGED file_vars
    /\ IF cursor_mode
       THEN IF click.area = "editor" /\ EditorOnPanel
            THEN /\ EditorMouseDown(click.target, click.button)
                 /\ UNCHANGED <<status, selected_index, scene_vars, counter_vars,
                                current_obj_name, adding_folder, new_folder_text, folders,
                                pending_export>>
            ELSE IF click.area = "hier" /\ HierOnPanel
            THEN /\ HierMouseDown([kind |-> click.target, i |-> click.i], click.button)
                 /\ UNCHANGED <<autosave_enabled, autosave_timer, current_scene_file, all_renderables, released, released_twice,
                                next_mesh, counter_vars, placement_mode, prop_inputs,
                                save_as_input, ui_autosave_enabled, saves>>
            ELSE /\ ViewportMouseDown(click.ray_dir)
                 /\ UNCHANGED <<autosave_enabled, autosave_timer, current_scene_file, prop_inputs, save_as_input,
                                ui_autosave_enabled, adding_folder, new_folder_text, folders,
                                pending_export, saves>>
       ELSE IF dev_mode /\ click.button = 1
            THEN /\ PickSelect(PickObject(camera, scene_objects))
                 /\ UNCHANGED <<status, autosave_enabled, autosave_timer, current_scene_file, scene_vars,
                                counter_vars, placement_mode, prop_inputs, save_as_input,
                                ui_autosave_enabled, adding_folder, new_folder_text, folders,
                                pending_export, saves>>
            ELSE UNCHANGED <<status, selected_index, autosave_enabled, autosave_timer, current_scene_file,
                             scene_vars, counter_vars, placement_mode, current_obj_name,
                             prop_inputs, save_as_input, ui_autosave_enabled, adding_folder,
                             new_folder_text, folders, pending_export, saves>>
    /\ UNCHANGED <<phase, cursor_mode, dev_mode, ui_visible, prop_owner, hier_visible,
                   next_order, row_rects, export_btn_rects, show_controls, camera, held,
                   handled, applied>>

\* Camera.process_mouse, angles in tenths of a degree (sensitivity 0.1).
ProcessMouse(cam, dx, dy) ==
    [cam EXCEPT !.yaw = cam.yaw + dx,
                !.pitch = Max2(-PITCH_LIMIT, Min2(PITCH_LIMIT, cam.pitch - dy))]

\* Pointer movements, in pixels.
MouseRels == {<<0, 900>>, <<0, -900>>}
\* Quarter turns of yaw away from the start.
MaxTurns == 1
CameraOnGrid(cam) ==
    /\ cam.pitch \in {-PITCH_LIMIT, 0, PITCH_LIMIT}
    /\ cam.yaw >= CameraStart.yaw /\ cam.yaw <= CameraStart.yaw + 900 * MaxTurns
    /\ \A i \in 1..3 : Abs(cam.position[i] - CameraStart.position[i]) <= MaxCamSteps * Unit

\* The mouse turns the camera whatever the cursor mode is.
AlwaysLooks == TRUE

\* process_events: a MOUSEMOTION event reaches the camera only in fly-look.
MouseLooks == ~cursor_mode

\* process_events, one MOUSEMOTION event.
MouseMotion(rel) ==
    /\ phase = "events" /\ Running
    /\ UNCHANGED file_vars
    /\ camera' = IF MouseLooks THEN ProcessMouse(camera, rel[1], rel[2]) ELSE camera
    /\ CameraOnGrid(camera')
    /\ UNCHANGED <<phase, status, engine_vars, scene_vars, counter_vars, editor_vars,
                   hier_vars, show_controls, held, tick_vars>>

\* process_events, one QUIT event.
QuitEvent ==
    /\ phase = "events" /\ Running
    /\ UNCHANGED file_vars
    /\ Quit
    /\ UNCHANGED <<phase, engine_vars, scene_objects, all_renderables, next_mesh,
                   counter_vars, editor_vars, hier_vars, show_controls, camera, held,
                   tick_vars>>
\* -------------------------------------------------------------------- update
\* Frame times clock.tick returns, in milliseconds: a regular frame and a stall.
StallMs == 15000
Dts == {DtMs, StallMs}
AUTOSAVE_INTERVAL == 30

\* Camera.process_keyboard over the held keys: velocity = speed * dt.
ProcessKeyboard(cam, keys, dt) ==
    IF "s" \in keys
    THEN [cam EXCEPT !.position =
             VSub(cam.position, VMul(Front(cam.yaw, cam.pitch), (CAMERA_SPEED * dt * Unit) \div 1000))]
    ELSE cam

\* DevMode.scale_speed, in tenths per second.
SCALE_SPEED == 15
\* factor = 1.0 + scale_speed * dt, in thousandths.
ScaleFactor(dt) == ScaleUnit + (SCALE_SPEED * dt * ScaleUnit) \div 10000
\* factor = max(1.0 - scale_speed * dt, 0.01), in thousandths.
ShrinkFactor(dt) == Max2(ScaleUnit - (SCALE_SPEED * dt * ScaleUnit) \div 10000, ScaleUnit \div Unit)
\* The factor of a scaling tick: K_EQUALS held, else K_MINUS held.
FactorOf(keys, dt) == IF "=" \in keys THEN ScaleFactor(dt) ELSE ShrinkFactor(dt)
\* Every axis is scaled whatever digit is held.
ScaledAllAxes(scl, keys, dt) ==
    IF "=" \notin keys /\ "-" \notin keys THEN scl
    ELSE Vec((scl[1] * FactorOf(keys, dt)) \div ScaleUnit,
             (scl[2] * FactorOf(keys, dt)) \div ScaleUnit,
             (scl[3] * FactorOf(keys, dt)) \div ScaleUnit)
\* The scaling branch of handle_movement_keys: one axis with K_1, K_2 or K_3 held,
\* else all three.
ScaledBy(scl, keys, dt) ==
    IF "=" \notin keys /\ "-" \notin keys THEN scl
    ELSE IF "1" \in keys
    THEN Vec((scl[1] * FactorOf(keys, dt)) \div ScaleUnit, scl[2], scl[3])
    ELSE IF "2" \in keys
    THEN Vec(scl[1], (scl[2] * FactorOf(keys, dt)) \div ScaleUnit, scl[3])
    ELSE IF "3" \in keys
    THEN Vec(scl[1], scl[2], (scl[3] * FactorOf(keys, dt)) \div ScaleUnit)
    ELSE Vec((scl[1] * FactorOf(keys, dt)) \div ScaleUnit,
             (scl[2] * FactorOf(keys, dt)) \div ScaleUnit,
             (scl[3] * FactorOf(keys, dt)) \div ScaleUnit)
\* The movement branch of handle_movement_keys: move = move_speed * dt.
MovedBy(pos, keys, dt) ==
    IF "UP" \in keys
    THEN Vec(pos[1], pos[2], pos[3] - (MOVE_SPEED * dt * Unit) \div 1000)
    ELSE pos

\* DevMode.handle_movement_keys over the held keys.
HandleMovementKeys(objs, index, keys, dt) ==
    IF index < 0 \/ index >= Len(objs) THEN objs
    ELSE [objs EXCEPT ![index + 1] =
             SetScale(SetPosition(objs[index + 1], MovedBy(ObjPosition(objs[index + 1]), keys, dt)),
                      ScaledBy(ObjScale(objs[index + 1]), keys, dt))]

\* EditorUI.read_property_values joined with values.get(key, default).
FieldValue(props, key, default, decimals) ==
    IF key \in DOMAIN props /\ props[key].has_field
    THEN ParseFloat(props[key].field.text, decimals)
    ELSE [ok |-> TRUE, value |-> default]

\* The guards of apply_ui_properties: it goes on to read the fields.
ApplyReads(objs, index, cached_name) ==
    /\ 0 <= index /\ index < Len(objs)
    /\ cached_name = objs[index + 1].name

\* apply_ui_properties, the position: all three fields parse or none is applied.
ApplyPosition(obj, props) ==
    LET p == [i \in 1..3 |-> FieldValue(props, PosKeys[i], ObjPosition(obj)[i], 2)]
    IN  IF \A i \in 1..3 : p[i].ok
        THEN SetPosition(obj, Vec(p[1].value, p[2].value, p[3].value))
        ELSE obj
\* apply_ui_properties, the scale.
ApplyScale(obj, props) ==
    LET q == [i \in 1..3 |-> FieldValue(props, SclKeys[i], ObjScale(obj)[i], 3)]
    IN  IF \A i \in 1..3 : q[i].ok
        THEN SetScale(obj, Vec(q[1].value, q[2].value, q[3].value))
        ELSE obj
\* apply_ui_properties, the alpha: a text that is not empty and parses is assigned.
ApplyAlpha(obj, props) ==
    IF /\ "alpha" \in DOMAIN props
       /\ props["alpha"].has_field
       /\ props["alpha"].field.text # <<>>
       /\ ParseFloat(props["alpha"].field.text, 4).ok
    THEN SetAlpha(obj, ParseFloat(props["alpha"].field.text, 4).value)
    ELSE obj
\* The folder is read whether or not its field is focused.
ApplyFolderFocused(obj, props, folder_val) ==
    IF /\ "folder" \in DOMAIN props
       /\ props["folder"].has_field
       /\ folder_val # <<>>
       /\ folder_val # obj.folder
    THEN [obj EXCEPT !.folder = folder_val]
    ELSE obj
\* apply_ui_properties, the folder: read while its field is not focused.
ApplyFolder(obj, props, folder_val) ==
    IF /\ "folder" \in DOMAIN props
       /\ props["folder"].has_field
       /\ ~props["folder"].field.active
       /\ folder_val # <<>>
       /\ folder_val # obj.folder
    THEN [obj EXCEPT !.folder = folder_val]
    ELSE obj

\* DevMode.apply_ui_properties: the objects afterwards.
ApplyUiProperties(objs, index, cached_name, props) ==
    IF ~ApplyReads(objs, index, cached_name) THEN objs
    ELSE [objs EXCEPT ![index + 1] =
             ApplyFolder(ApplyAlpha(ApplyScale(ApplyPosition(objs[index + 1], props), props),
                                    props), props,
                         IF "folder" \in DOMAIN props /\ props["folder"].has_field
                         THEN Strip(props["folder"].field.text) ELSE <<>>)]

\* EditorUI._build_property_inputs: [name, props, owner] afterwards.
BuildPropertyInputs(ed, sel) ==
    IF sel = <<>> THEN [name |-> None, props |-> NoProps, owner |-> 0]
    ELSE IF sel[1].name = ed.name THEN ed
    ELSE [name |-> sel[1].name, props |-> BuiltProps(sel[1]), owner |-> ObjId(sel[1])]

\* EditorUI.refresh_values: the fields afterwards.
RefreshValues(props, obj) ==
    [k \in DOMAIN props |->
        IF k \in DOMAIN FieldMap(obj) /\ props[k].has_field /\ ~props[k].field.active
        THEN [props[k] EXCEPT !.field.text = FieldMap(obj)[k]]
        ELSE props[k]]

\* SceneHierarchy.update: ensure_folder for every object's folder.
RECURSIVE EnsureAll(_, _, _)
EnsureAll(st, objs, i) ==
    IF i > Len(objs) THEN st ELSE EnsureAll(EnsureFolder(st, objs[i].folder), objs, i + 1)

\* The environment's bounds on what one update may move.
CameraRoom(cam) == CameraOnGrid(cam)
MaxMoves == 1
MoveRoom(dt) == dt = DtMs /\ key_moves < MaxMoves
\* Regular frames are counted only up to MaxShortFrames between stalls.
MaxShortFrames == 1
TimerRoom(dt) ==
    autosave_enabled /\ dev_mode /\ dt = DtMs => autosave_timer % StallMs < MaxShortFrames * DtMs

\* The timer passes the threshold only when it exceeds it.
AutosaveFiresLate(timer, dt) == timer + dt > AUTOSAVE_INTERVAL * 1000

\* update(): autosave_timer += dt; if autosave_timer >= AUTOSAVE_INTERVAL.
AutosaveFires(timer, dt) == timer + dt >= AUTOSAVE_INTERVAL * 1000

\* GraphicsEngine.update, one tick's update with frame time dt.
Update(dt) ==
    /\ phase = "events" /\ Running
    /\ UNCHANGED file_vars
    /\ TimerRoom(dt)
    /\ \E cam1 \in {IF ~cursor_mode THEN ProcessKeyboard(camera, held, dt) ELSE camera} :
       \E objs1 \in {IF dev_mode /\ selected_index >= 0 /\ ~cursor_mode
                      THEN HandleMovementKeys(scene_objects, selected_index, held, dt)
                      ELSE scene_objects} :
       \E objs2 \in {IF cursor_mode /\ dev_mode
                      THEN ApplyUiProperties(objs1, selected_index, current_obj_name, prop_inputs)
                      ELSE objs1} :
       \E fires \in {autosave_enabled /\ dev_mode /\ AutosaveFires(autosave_timer, dt)} :
       \E sel \in {Selected(objs2, selected_index)} :
       \E ed0 \in {[name |-> current_obj_name, props |-> prop_inputs, owner |-> prop_owner]} :
       \E ed1 \in {IF ui_visible THEN BuildPropertyInputs(ed0, sel) ELSE ed0} :
       \E hs0 \in {[folders |-> folders, next_order |-> next_order]} :
       \E hs \in {IF hier_visible THEN EnsureAll(hs0, objs2, 1) ELSE hs0} :
           /\ cam1 # camera => CameraRoom(cam1)
           /\ objs1 # scene_objects => MoveRoom(dt)
           /\ camera' = cam1
           /\ scene_objects' = objs2
           /\ all_renderables' = all_renderables
           /\ autosave_timer' = IF autosave_enabled /\ dev_mode
                                THEN (IF fires THEN 0 ELSE autosave_timer + dt)
                                ELSE autosave_timer
           /\ saves' = IF fires THEN Append(saves, current_scene_file) ELSE saves
           /\ current_obj_name' = ed1.name
           /\ prop_owner' = ed1.owner
           /\ prop_inputs' = IF sel # <<>> THEN RefreshValues(ed1.props, sel[1]) ELSE ed1.props
           /\ folders' = hs.folders
           /\ next_order' = hs.next_order
           /\ key_moves' = IF objs1 # scene_objects THEN key_moves + 1 ELSE key_moves
           /\ applied' = ({"s"} \cap (IF cam1 # camera THEN held ELSE {}))
                            \cup ({"UP", "="} \cap (IF objs1 # scene_objects THEN held ELSE {}))
    /\ phase' = "render"
    /\ UNCHANGED <<status, cursor_mode, dev_mode, selected_index, autosave_enabled,
                   current_scene_file, released, released_twice,
                   next_mesh, cube_counter, tri_counter, light_counter, spawn_count,
                   placement_mode, ui_visible, save_as_input,
                   ui_autosave_enabled, hier_visible, adding_folder, new_folder_text,
                   row_rects, export_btn_rects, pending_export, show_controls, held, handled>>

\* -------------------------------------------------------------------- render
\* EditorUI._draw_properties: a text field is created for every entry without one.
DrawProperties(props) ==
    [k \in DOMAIN props |->
        IF props[k].has_field THEN props[k]
        ELSE [props[k] EXCEPT !.has_field = TRUE, !.field = TextInput(props[k].value)]]

\* The rows SceneHierarchy.draw lays out: per folder in order, the folder's row and,
\* if it is open, one row per object of the folder in scene order.
ObjectRows(objs, folder_name) ==
    LET idx == {i \in 1..Len(objs) : objs[i].folder = folder_name}
        RECURSIVE Rows(_)
        Rows(rest) ==
            IF rest = {} THEN <<>>
            ELSE LET i == CHOOSE j \in rest : \A m \in rest : j <= m
                 IN  <<[item_type |-> "object", folder |-> folder_name, index |-> i - 1]>>
                         \o Rows(rest \ {i})
    IN  Rows(idx)
RECURSIVE LayoutRows(_, _, _)
LayoutRows(fs, objs, names) ==
    IF names = <<>> THEN <<>>
    ELSE <<[item_type |-> "folder", folder |-> Head(names), index |-> -1]>>
            \o (IF fs[Head(names)].open THEN ObjectRows(objs, Head(names)) ELSE <<>>)
            \o LayoutRows(fs, objs, Tail(names))

\* GraphicsEngine.render: the HUD draws the editor panel, the hierarchy draws its rows.
Render ==
    /\ phase = "render" /\ Running
    /\ UNCHANGED file_vars
    /\ prop_inputs' = IF /\ dev_mode \/ show_controls
                         /\ ui_visible
                         /\ current_obj_name # None
                         /\ prop_inputs # NoProps
                      THEN DrawProperties(prop_inputs)
                      ELSE prop_inputs
    /\ row_rects' = IF hier_visible THEN LayoutRows(folders, scene_objects, SortedFolders(folders))
                    ELSE row_rects
    /\ export_btn_rects' = IF hier_visible THEN SortedFolders(folders) ELSE export_btn_rects
    /\ phase' = "events"
    /\ saves' = <<>>
    /\ handled' = {}
    /\ applied' = {}
    /\ UNCHANGED <<status, engine_vars, scene_vars, counter_vars, placement_mode, ui_visible,
                   current_obj_name, prop_owner, save_as_input, ui_autosave_enabled,
                   hier_visible, adding_folder, new_folder_text, folders, next_order,
                   pending_export, show_controls, camera, held>>

Last(seq) == seq[Len(seq)]
Names(objs) == {objs[i].name : i \in 1..Len(objs)}

\* C1: for each primitive type, the k-th successful spawn of that type since the
\* session started appends an object named cube_k / tri_k / light_k, whatever was
\* deleted in between; every counter equals the number of spawns of its type, so it
\* only grows, by one per spawn, and no number is given twice.
C1_KthSpawnIsNamedK ==
    [][ /\ cube_counter' = spawn_count'["cube"]
        /\ tri_counter' = spawn_count'["triangle"]
        /\ light_counter' = spawn_count'["light"]
        /\ \A kind \in Kinds :
              /\ spawn_count'[kind] \in {spawn_count[kind], spawn_count[kind] + 1}
              /\ spawn_count'[kind] = spawn_count[kind] + 1 =>
                    /\ Len(scene_objects') = Len(scene_objects) + 1
                    /\ Last(scene_objects').format = kind
                    /\ Last(scene_objects').name
                          = (CASE kind = "cube" -> "cube_" [] kind = "triangle" -> "tri_"
                               [] kind = "light" -> "light_") \o ToString(spawn_count'[kind])
        /\ Len(scene_objects') > Len(scene_objects) =>
              \E kind \in Kinds : spawn_count'[kind] = spawn_count[kind] + 1
      ]_vars
\* The second cube spawned after the first one was deleted: it is cube_2.
C1_Witness ==
    /\ spawn_count["cube"] = 2
    /\ released # {}
    /\ Len(scene_objects) = 1
    /\ scene_objects[1].name = "cube_2"

\* C2: from a loaded scene whose entries have pairwise distinct names, no sequence
\* of spawns and deletes leads to a scene in which two objects share a name.
C2_NamesUnique ==
    \A i, j \in 1..Len(scene_objects) :
        i # j => scene_objects[i].name # scene_objects[j].name

\* C5: a viewport click in cursor mode with a placement T pending appends exactly one
\* object of type T and leaves the rest of the scene as it was; the spawn point is the
\* floor hit when screen_to_floor succeeds and the point 5 units in front of the
\* camera otherwise, and the object stands 0.5 above it; placement is none
\* afterwards, and a viewport click with no placement pending spawns nothing.
C5_PlacementSpawnsOnce ==
    [][ \A click \in ViewClicks :
          cursor_mode /\ MouseDown(click) =>
              IF placement_mode # None
              THEN LET hit   == ScreenToFloor(camera, click.ray_dir)
                       point == IF hit # <<>> THEN hit[1]
                                ELSE VAdd(camera.position,
                                          VMul(Front(camera.yaw, camera.pitch), 5 * Unit))
                   IN  /\ Len(scene_objects') = Len(scene_objects) + 1
                       /\ SubSeq(scene_objects', 1, Len(scene_objects)) = scene_objects
                       /\ Last(scene_objects').format = placement_mode
                       /\ Len(Last(scene_objects').meshes) = 1
                       /\ ObjPosition(Last(scene_objects'))
                             = VAdd(point, Vec(0, Unit \div 2, 0))
                       /\ placement_mode' = None
              ELSE /\ scene_objects' = scene_objects
                   /\ placement_mode' = None
      ]_vars
\* A light placed on the floor under the camera, and a triangle placed in front of it
\* after a click that missed the floor; no placement is pending.
C5_Witness ==
    /\ cursor_mode /\ placement_mode = None
    /\ \E i, j \in 1..Len(scene_objects) :
          /\ scene_objects[i].format = "light"
          /\ ObjPosition(scene_objects[i]) = Vec(0, Unit \div 2, 15 * Unit)
          /\ scene_objects[j].format = "triangle"
          /\ ObjPosition(scene_objects[j]) = Vec(0, 5 * Unit + Unit \div 2, 10 * Unit)

\* C9: deleting at a valid selected index releases every mesh of the object at that
\* index and no other, removes that object and leaves the others as they were and in
\* their order, rebuilds the renderable list from the remaining objects, and leaves
\* nothing selected.
C9_DeleteRemovesExactlyTheSelected ==
    [][ /\ dev_mode /\ ~EditorHasActiveInput /\ ~HierHasActiveInput
        /\ 0 <= selected_index /\ selected_index < Len(scene_objects)
        /\ KeyDown("DELETE", FALSE)
        => /\ released' = released \cup
                  {scene_objects[selected_index + 1].meshes[m].id :
                      m \in 1..Len(scene_objects[selected_index + 1].meshes)}
           /\ Len(scene_objects') = Len(scene_objects) - 1
           /\ \A i \in 1..Len(scene_objects') :
                 scene_objects'[i] = scene_objects[IF i <= selected_index THEN i ELSE i + 1]
           /\ all_renderables' = StaticObjects \o AllMeshIds(scene_objects')
           /\ \A i \in 1..Len(all_renderables') : all_renderables'[i] \notin released'
           /\ selected_index' = -1
      ]_vars
\* The first of two objects was deleted: the one spawned after it remains.
C9_Witness ==
    /\ selected_index = -1
    /\ Len(scene_objects) = 1
    /\ \E id \in released : id < scene_objects[1].meshes[1].id
    /\ spawn_count["cube"] + spawn_count["triangle"] + spawn_count["light"] = 1

\* C3: every step that changes the selection (a viewport pick, a hierarchy row click,
\* a spawn, a delete, a deselect) leaves the editor's bound-object cache empty in the
\* same step; so whenever apply_ui_properties would read the property fields, they
\* were built for the object that is selected, and it never writes text built for
\* one object into another.
C3_SelectionChangeResetsCache ==
    [][ /\ selected_index' # selected_index => current_obj_name' = None
        /\ /\ cursor_mode /\ dev_mode
           /\ 0 <= selected_index /\ selected_index < Len(scene_objects)
           /\ current_obj_name = scene_objects[selected_index + 1].name
           /\ \E k \in DOMAIN prop_inputs : prop_inputs[k].has_field
           => prop_owner = scene_objects[selected_index + 1].meshes[1].id
      ]_vars
\* Two objects of the same name, each edited through fields built for it: the Y of
\* the loaded cube was set to 0.01 through its fields, then the spawned cube was
\* selected and its Y, 0.5 or 5.5 at the spawn, changed in its last digit alone.
C3_Witness ==
    /\ Len(scene_objects) = 2
    /\ selected_index = 1
    /\ scene_objects[1].name = scene_objects[2].name
    /\ ObjPosition(scene_objects[1]) = Vec(0, 1, 0)
    /\ ObjPosition(scene_objects[2])[2] \in {Unit \div 2 + 1, 5 * Unit + Unit \div 2 + 1}
    /\ prop_owner = scene_objects[2].meshes[1].id
    /\ current_obj_name = scene_objects[2].name

\* C6: a click in cursor mode whose pointer is over a visible side panel is consumed
\* by that panel: no object is spawned, a pending placement changes only by a spawn
\* button of the editor panel, and no viewport pick runs - the selection changes
\* only to the object of a clicked hierarchy row - even when a placement is pending.
C6_PanelConsumesClick ==
    [][ \A click \in EditorClicks(EditorTargets)
                        \cup HierClicks({"add_folder", "export", "delete", "row", "blank"}) :
          /\ cursor_mode
          /\ \/ click.area = "editor" /\ ui_visible
             \/ click.area = "hier" /\ hier_visible
          /\ MouseDown(click)
          => /\ scene_objects' = scene_objects
             /\ UNCHANGED <<cube_counter, tri_counter, light_counter, released>>
             /\ placement_mode' # placement_mode =>
                   /\ click.area = "editor" /\ click.button = 1
                   /\ click.target \in {"spawn_cube", "spawn_triangle", "spawn_light"}
             /\ selected_index' # selected_index =>
                   /\ click.area = "hier" /\ click.target = "row" /\ click.button = 1
                   /\ selected_index' = row_rects[click.i].index
      ]_vars
\* A placement is pending, both panels are visible, and an object is selected that
\* only a hierarchy row selects: the loaded cube, after a spawn selected the new one.
C6_Witness ==
    /\ cursor_mode /\ ui_visible /\ hier_visible
    /\ placement_mode = "cube"
    /\ Len(scene_objects) = 2
    /\ selected_index = 0
    /\ row_rects # <<>>

\* The meshes update and render touch: those of the scene's objects and the renderables.
LiveIds ==
    UNION {{scene_objects[i].meshes[k].id : k \in 1..Len(scene_objects[i].meshes)} :
              i \in 1..Len(scene_objects)}
        \cup {all_renderables[i] : i \in 1..Len(all_renderables)}

\* C13: no mesh is released twice; a step that removes an object releases every mesh
\* of that object in the same step; meshes are released only by such a step or by
\* quit; and while the engine runs, no mesh of a scene object and no renderable is
\* a released mesh.
C13_ReleasedOnceAtDelete ==
    [][ /\ released_twice' = {}
        /\ Running' => LiveIds' \cap released' = {}
        /\ Len(scene_objects') < Len(scene_objects) =>
              \E i \in 1..Len(scene_objects) :
                 /\ scene_objects' = [j \in 1..(Len(scene_objects) - 1) |->
                                         IF j < i THEN scene_objects[j] ELSE scene_objects[j + 1]]
                 /\ released' = released \cup
                       {scene_objects[i].meshes[k].id : k \in 1..Len(scene_objects[i].meshes)}
        /\ released' # released => Len(scene_objects') < Len(scene_objects) \/ status' = "quit"
      ]_vars
\* The loaded two-mesh model was deleted and the engine then quit: its two meshes
\* and the static objects are released, each once.
C13_Witness ==
    /\ status = "quit"
    /\ scene_objects = <<>>
    /\ released = 1..(FirstMeshId + 1)
    /\ released_twice = {}

\* C14: a tick drains the input events, then updates, then renders: events are
\* handled only before the update, the update is the step that ends the draining,
\* and the render is the only step after it.  Whenever render runs, the renderables
\* are the static objects followed by the meshes of exactly the current scene
\* objects, in scene order.
C14_RenderSeesWholeInputs ==
    [][ /\ phase = "render" => Render
        /\ phase = "events" => (phase' = "render" <=> Update(DtMs))
        /\ phase = "events" /\ phase' = "events" => ~Render
        /\ Render => all_renderables = StaticObjects \o AllMeshIds(scene_objects)
      ]_vars
\* A render is due in a tick after two spawns and a delete: one object is left and
\* the renderables end with its mesh.
C14_Witness ==
    /\ phase = "render"
    /\ released # {}
    /\ cube_counter + tri_counter + light_counter = 2
    /\ Len(scene_objects) = 1
    /\ all_renderables = StaticObjects \o <<scene_objects[1].meshes[1].id>>

\* A text input has the focus: the save-as field, a property field, or the
\* hierarchy's new-folder input.
TextFocused ==
    \/ save_as_input.active
    \/ \E k \in DOMAIN prop_inputs : prop_inputs[k].has_field /\ prop_inputs[k].field.active
    \/ adding_folder

\* C4: while a text input is focused, a key-down goes to that input alone: it does
\* not toggle dev mode, cursor mode or a panel, does not spawn, delete, save or quit,
\* and changes no text input that is not focused; while an editor field is focused
\* the new-folder input is not touched either.
C4_FocusedInputTakesKeys ==
    [][ \A key \in Keys, ctrl \in BOOLEAN :
          TextFocused /\ KeyDown(key, ctrl) =>
              /\ UNCHANGED <<status, dev_mode, cursor_mode, ui_visible, hier_visible,
                             show_controls, placement_mode, selected_index, scene_objects,
                             released, all_renderables, cube_counter, tri_counter,
                             light_counter, saves, camera>>
              /\ ~save_as_input.active => save_as_input' = save_as_input
              /\ DOMAIN prop_inputs' = DOMAIN prop_inputs
              /\ \A k \in DOMAIN prop_inputs :
                    ~(prop_inputs[k].has_field /\ prop_inputs[k].field.active)
                        => prop_inputs'[k] = prop_inputs[k]
              /\ (\/ save_as_input.active
                  \/ \E k \in DOMAIN prop_inputs :
                        prop_inputs[k].has_field /\ prop_inputs[k].field.active)
                    => UNCHANGED <<adding_folder, new_folder_text, folders>>
      ]_vars
\* The keys C and H were typed: C into the focused Y field of the selected cube, which
\* is still the only object, H into the new-folder input, and the controls are hidden.
C4_Witness ==
    /\ "pos_y" \in DOMAIN prop_inputs
    /\ prop_inputs["pos_y"].has_field /\ prop_inputs["pos_y"].field.active
    /\ prop_inputs["pos_y"].field.text = <<"0", ".", "0", "c">>
    /\ adding_folder /\ new_folder_text = <<"h">>
    /\ ~show_controls /\ dev_mode /\ cursor_mode
    /\ Len(scene_objects) = 1 /\ cube_counter = 0

\* What only a click on a panel changes: the pending placement, the text inputs and
\* their focus, the autosave checkbox and the folders.
PanelState ==
    <<placement_mode, save_as_input, prop_inputs, ui_autosave_enabled, adding_folder,
      new_folder_text, folders>>

\* C7: the camera changes only in fly-look.  Before and after every step, if a
\* placement is pending or a text input is focused then cursor mode is on; in cursor mode neither mouse motion nor
\* the held movement keys change the camera, and a click that a panel handles
\* happens in cursor mode and leaves the camera alone.
C7_CameraMovesOnlyInFlyLook ==
    [][ /\ placement_mode # None \/ TextFocused => cursor_mode
        /\ (placement_mode # None \/ TextFocused)' => cursor_mode'
        /\ camera' # camera => ~cursor_mode /\ placement_mode = None /\ ~TextFocused
        /\ \A click \in EditorClicks(EditorTargets) \cup HierClicks({"add_folder", "blank"}) :
              PanelState' # PanelState /\ MouseDown(click)
                  => cursor_mode /\ camera' = camera
      ]_vars
\* The camera flew backwards and turned in fly-look; now a cube placement is pending
\* in cursor mode, S is still held, and the frame's update has run.
C7_Witness ==
    /\ placement_mode = "cube" /\ cursor_mode /\ dev_mode
    /\ "s" \in held
    /\ phase = "render"
    /\ camera.position # CameraStart.position
    /\ camera.pitch # CameraStart.pitch

\* C8: no key is acted on twice in a tick: a key press that a text input or a
\* shortcut handled is not also applied by the camera or by held-key object
\* movement in the same tick.
C8_OneConsumer == handled \cap applied = {}

\* ---------------------------------------------------------------------- run
\* Scene editing: modes, spawning, placement, picking and deleting.
EditKeys == {"ESC", "F1", "F2", "c", "DELETE"}
EditTargets == {"spawn_cube", "spawn_triangle", "spawn_light", "blank"}
Next ==
    \/ \E key \in EditKeys : KeyDown(key, FALSE)
    \/ \E click \in EditorClicks(EditTargets) \cup ViewClicks : MouseDown(click)
    \/ QuitEvent
    \/ Update(DtMs)
    \/ Render

Spec == Init /\ [][Next]_vars

\* Selection: picking, hierarchy rows, spawning, deleting and the property fields,
\* on the scene of one cube.  The panels are opened and stay open, text keys are
\* pressed only into a focused field, and MaxSelectSpawns objects are spawned.
SelectKeys == {"F1", "F2", "F3", "c", "DELETE"}
SelectTextKeys == {"BACKSPACE", "1", "RETURN"}
SelectTargets == {"spawn_cube", "pos_y", "blank"}
MaxSelectSpawns == 1
SelectRoom == cube_counter + tri_counter + light_counter <= MaxSelectSpawns
InitSelect == InitWith(SceneFileCube)
NextSelect ==
    \/ \E key \in SelectKeys \cup SelectTextKeys :
          /\ key \in SelectTextKeys => EditorHasActiveInput
          /\ key = "F1" => ~dev_mode
          /\ key = "F3" => ~hier_visible
          /\ KeyDown(key, FALSE)
          /\ SelectRoom'
    \/ \E click \in EditorClicks(SelectTargets) \cup HierClicks({"row", "blank"}) \cup ViewClicks :
          MouseDown(click) /\ SelectRoom'
    \/ Update(DtMs)
    \/ Render

SpecSelect == InitSelect /\ [][NextSelect]_vars

\* Manipulation: the scene of the two-mesh model is loaded; objects are picked in the
\* viewport, moved and scaled by keys that go down in fly-look on a selected object,
\* edited through the Y field in cursor-edit, and MaxMeshSpawns objects are spawned.
MeshKeys == {"F1", "F2", "UP", "="}
MeshTextKeys == {"BACKSPACE", "1", "RETURN"}
MeshTargets == {"spawn_triangle", "pos_y", "blank"}
MaxMeshSpawns == 1
MeshRoom == cube_counter + tri_counter + light_counter <= MaxMeshSpawns
InitMesh == InitWith(SceneFileModels)
NextMesh ==
    \/ \E key \in MeshKeys \cup MeshTextKeys :
          /\ key \in MeshTextKeys => EditorHasActiveInput
          /\ key = "F1" => ~dev_mode
          /\ key \in PolledKeys => dev_mode /\ ~cursor_mode /\ selected_index >= 0 /\ key_moves = 0
          /\ KeyDown(key, FALSE)
          /\ MeshRoom'
    \/ \E key \in PolledKeys : KeyUp(key)
    \/ \E click \in EditorClicks(MeshTargets) \cup ViewClicks :
          MouseDown(click) /\ MeshRoom'
    \/ Update(DtMs)
    \/ Render

SpecMesh == InitMesh /\ [][NextMesh]_vars

\* Opacity: a scene file with an "alpha" entry is loaded; the object is picked, its
\* Opacity field is edited in cursor-edit, and MaxAlphaSpawns objects are spawned.
AlphaFiles == {SceneFileGlass, SceneFileBright, SceneFileDim}
AlphaKeys == {"F1", "F2"}
AlphaTextKeys == {"BACKSPACE", "1", "RETURN"}
AlphaTargets == {"spawn_cube", "alpha", "blank"}
MaxAlphaSpawns == 1
AlphaRoom == cube_counter + tri_counter + light_counter <= MaxAlphaSpawns
InitAlpha == \E entries \in AlphaFiles : InitWith(entries)
NextAlpha ==
    \/ \E key \in AlphaKeys \cup AlphaTextKeys :
          /\ key \in AlphaTextKeys => EditorHasActiveInput
          /\ key = "F1" => ~dev_mode
          /\ KeyDown(key, FALSE)
          /\ AlphaRoom'
    \/ \E click \in EditorClicks(AlphaTargets) \cup ViewClicks :
          MouseDown(click) /\ AlphaRoom'
    \/ Update(DtMs)
    \/ Render

SpecAlpha == InitAlpha /\ [][NextAlpha]_vars

\* Folders: on the scene of one cube the panels open and close, the cube's Folder
\* field is edited, folders are added and deleted in the hierarchy; at most
\* MaxFolderNames folders are ever created and no object is spawned.
FolderKeys == {"F1", "F2", "F3"}
FolderTextKeys == {"BACKSPACE", "h", "RETURN"}
FolderTargets == {"folder", "blank"}
MaxFolderNames == 1
FolderNamesRoom == next_order <= MaxFolderNames + 1 /\ Len(scene_objects) = 1
\* SceneHierarchy._delete_folder called directly with the name of a folder.
OpDeleteFolder(folder_name) ==
    /\ phase = "events" /\ Running
    /\ UNCHANGED file_vars
    /\ scene_objects' = DeleteFolderObjects(folder_name, scene_objects)
    /\ folders' = DeleteFolderFolders(folder_name, folders)
    /\ UNCHANGED <<phase, status, engine_vars, all_renderables, released, released_twice,
                   next_mesh, counter_vars, editor_vars, hier_visible, adding_folder,
                   new_folder_text, next_order, row_rects, export_btn_rects, pending_export,
                   show_controls, camera, held, tick_vars>>
NextFolder ==
    \/ \E key \in FolderKeys \cup FolderTextKeys :
          /\ key \in FolderTextKeys => TextFocused
          /\ key = "F1" => ~dev_mode
          /\ KeyDown(key, FALSE)
          /\ FolderNamesRoom'
    \/ \E click \in EditorClicks(FolderTargets)
                        \cup HierClicks({"add_folder", "delete", "row"}) \cup ViewClicks :
          MouseDown(click) /\ FolderNamesRoom'
    \/ \E folder_name \in DOMAIN folders : OpDeleteFolder(folder_name)
    \/ Update(DtMs) /\ FolderNamesRoom'
    \/ Render

SpecFolder == InitSelect /\ [][NextFolder]_vars

\* Cancelling: on the scene of one cube, in dev mode, the cube is picked and its Y
\* field is edited with digits and a letter while the hierarchy opens and closes;
\* the field loses the focus only by the cancel key, so no edit is ever confirmed.
CancelKeys == {"F1", "F3"}
CancelTextKeys == {"BACKSPACE", "1", "c", "ESC"}
CancelTargets == {"pos_y"}
NextCancel ==
    \/ \E key \in CancelKeys \cup CancelTextKeys :
          /\ key \in CancelTextKeys => EditorHasActiveInput
          /\ key = "F1" => ~dev_mode
          /\ KeyDown(key, FALSE)
    \/ \E click \in EditorClicks(CancelTargets) \cup ViewClicks : MouseDown(click)
    \/ Update(DtMs)
    \/ Render

SpecCancel == InitSelect /\ [][NextCancel]_vars

\* Two fields: on the scene of one cube, in dev mode, the cube is picked and its X
\* and Y fields are clicked and edited with a digit and a letter.
FieldsKeys == {"F1"}
FieldsTextKeys == {"BACKSPACE", "1", "c"}
FieldsTargets == {"pos_x", "pos_y"}
NextFields ==
    \/ \E key \in FieldsKeys \cup FieldsTextKeys :
          /\ key \in FieldsTextKeys => EditorHasActiveInput
          /\ key = "F1" => ~dev_mode
          /\ KeyDown(key, FALSE)
    \/ \E click \in EditorClicks(FieldsTargets) \cup ViewClicks : MouseDown(click)
    \/ Update(DtMs)
    \/ Render

SpecFields == InitSelect /\ [][NextFields]_vars

\* Saving: on the scene of one cube, in dev mode, the scene is saved by Tab, Ctrl+S
\* and Save As under names shortened in the file-name field, autosave is switched on
\* and off, and frames are regular or stalled.
SaveKeys == {"F1", "TAB", "s"}
SaveTextKeys == {"BACKSPACE", "RETURN"}
SaveTargets == {"autosave_toggle", "save_as_button", "save_as_input"}
NextSave ==
    \/ \E key \in SaveKeys \cup SaveTextKeys, ctrl \in BOOLEAN :
          /\ key \in SaveTextKeys => EditorHasActiveInput
          /\ key = "s" => ctrl
          /\ KeyDown(key, ctrl)
    \/ \E key \in SaveKeys : KeyUp(key)
    \/ \E click \in EditorClicks(SaveTargets) : MouseDown(click)
    \/ \E dt \in Dts : Update(dt)
    \/ Render

SpecSave == InitSelect /\ [][NextSave]_vars

\* Typing: every key but the scaling key goes down, with or without Ctrl, while a text input has the focus;
\* without a focus only the keys that open the panels do.  The save-as name loses at
\* most MaxErased characters and no folder is created.
TypeKeys == {"F1", "F3"}
TypeTargets == {"save_as_input", "pos_y", "blank"}
MaxErased == 1
TypeRoom ==
    /\ Len(save_as_input.text) + MaxErased >= Len(TextInput(<<"m", "y", "_", "l", "e", "v", "e", "l">>).text)
    /\ DOMAIN folders = {SceneFolder}
NextType ==
    \/ \E key \in Keys \ {"="}, ctrl \in BOOLEAN :
          /\ key \notin TypeKeys => TextFocused
          /\ key = "F1" => ~dev_mode
          /\ key = "F3" => ~hier_visible
          /\ KeyDown(key, ctrl)
          /\ TypeRoom'
    \/ \E click \in EditorClicks(TypeTargets) \cup HierClicks({"add_folder", "blank"})
                        \cup ViewClicks :
          MouseDown(click)
    \/ Update(DtMs)
    \/ Render

SpecType == InitSelect /\ [][NextType]_vars

\* Modes: on the scene of one cube, dev mode, cursor mode and the hierarchy panel
\* are switched on and off in any order; the panels, the viewport and the rows
\* are clicked with the primary button and the wheel, a cube is deleted or
\* placed, and text keys are pressed into a focused input.
ModesKeys == {"F1", "F2", "F3", "DELETE"}
ModesTextKeys == {"1", "RETURN"}
ModesTargets == {"spawn_cube", "pos_y", "save_as_input"}
NextModes ==
    \/ \E key \in ModesKeys \cup ModesTextKeys :
          /\ key \in ModesTextKeys => TextFocused
          /\ KeyDown(key, FALSE)
          /\ SelectRoom' /\ TypeRoom'
    \/ \E click \in EditorClicks(ModesTargets)
                        \cup HierClicks({"add_folder", "row", "blank"}) \cup ViewClicks :
          MouseDown(click) /\ SelectRoom'
    \/ Update(DtMs)
    \/ Render

SpecModes == InitSelect /\ [][NextModes]_vars

\* Flying: the camera, the held keys and the shortcuts, on the scene of one cube.
\* No click places an object; the hierarchy is opened once, before the first flight,
\* and the arrow key moves the selected object only in flights without the hierarchy.
FlyKeys == {"ESC", "F1", "F2", "F3", "s", "UP"}
FlyTargets == {"spawn_cube", "save_as_input", "blank"}
NextFly ==
    \/ \E key \in FlyKeys, ctrl \in BOOLEAN :
          /\ key = "F3" => ~hier_visible /\ held = {} /\ key_moves = 0
                               /\ camera = CameraStart /\ selected_index = -1
                               /\ ~save_as_input.active
          /\ key = "UP" => ~hier_visible
          /\ KeyDown(key, ctrl)
    \/ \E key \in FlyKeys : KeyUp(key)
    \/ \E click \in EditorClicks(FlyTargets) \cup HierClicks({"add_folder"}) \cup ViewClicks :
          /\ MouseDown(click)
          /\ Len(scene_objects') = Len(scene_objects)
    \/ \E rel \in MouseRels : MouseMotion(rel)
    \/ QuitEvent
    \/ Update(DtMs)
    \/ Render

SpecFly == InitSelect /\ [][NextFly]_vars
\* The operations of DevMode called directly, with any arguments; the caller stores
\* the returned index as the selection.
OpTypes == Kinds \cup {"sphere"}
OpPositions == {Vec(0, 0, 0), Vec(Unit, 0, -Unit)}
OpSpawn(obj_type, position) ==
    /\ Running
    /\ UNCHANGED file_vars
    /\ SpawnRoom
    /\ SpawnAt(obj_type, position)
    /\ UNCHANGED <<phase, cursor_mode, dev_mode, autosave_enabled, autosave_timer, current_scene_file,
                   placement_mode, ui_visible, prop_inputs, prop_owner, save_as_input,
                   ui_autosave_enabled, hier_vars, show_controls, camera, held, tick_vars>>
OpDelete(index) ==
    /\ Running
    /\ UNCHANGED file_vars
    /\ DeleteSelected(index)
    /\ UNCHANGED <<phase, cursor_mode, dev_mode, autosave_enabled, autosave_timer, current_scene_file,
                   counter_vars, placement_mode, ui_visible, prop_inputs, prop_owner,
                   save_as_input, ui_autosave_enabled, hier_vars, show_controls, camera,
                   held, tick_vars>>
NextOps ==
    \/ \E obj_type \in OpTypes, position \in OpPositions : OpSpawn(obj_type, position)
    \/ \E index \in -1..MaxObjects : OpDelete(index)

SpecOps == Init /\ [][NextOps]_vars

\* Scaling ticks: objects are spawned (the spawned object is selected) and
\* handle_movement_keys is called with the scaling and axis keys that are down.
MaxScaleTicks == 2
ScaleKeys == {"=", "-"}
AxisKeys == <<"1", "2", "3">>
HeldSets == SUBSET (ScaleKeys \cup {AxisKeys[a] : a \in 1..3})
OpMovementKeys(keys, dt) ==
    /\ Running
    /\ UNCHANGED file_vars
    /\ key_moves < MaxScaleTicks
    /\ scene_objects' = HandleMovementKeys(scene_objects, selected_index, keys, dt)
    /\ key_moves' = key_moves + 1
    /\ UNCHANGED <<phase, status, engine_vars, all_renderables, released, released_twice,
                   next_mesh, cube_counter, tri_counter, light_counter, spawn_count,
                   editor_vars, hier_vars, show_controls, camera, held, tick_vars>>
NextScale ==
    \/ \E obj_type \in Kinds : OpSpawn(obj_type, Vec(0, 0, 0))
    \/ \E keys \in HeldSets, dt \in Dts : OpMovementKeys(keys, dt)

SpecScale == Init /\ [][NextScale]_vars

\* Picking: objects are spawned and scaled (grown in regular frames only), the
\* camera is put on a spot, and
\* _pick_from_ray is called from the camera along a ray; the index it returns
\* becomes the selection.
CameraSpots ==
    {CameraStart.position, Vec(0, Unit \div 2, 15 * Unit), Vec(0, 60 * Unit, 0),
     Vec(0, 5 * Unit, -80 * Unit), Vec(Unit, Unit \div 2, 4 * Unit)}
OpLook(spot) ==
    /\ Running
    /\ camera.position # spot
    /\ camera' = [camera EXCEPT !.position = spot]
    /\ UNCHANGED <<phase, status, engine_vars, scene_vars, counter_vars, editor_vars,
                   hier_vars, show_controls, held, tick_vars, file_vars>>
OpPick(ray_dir) ==
    /\ Running
    /\ selected_index' = PickFromRay(camera.position, ray_dir, scene_objects)
    /\ UNCHANGED <<phase, status, cursor_mode, dev_mode, autosave_enabled, autosave_timer,
                   current_scene_file, scene_vars, counter_vars, editor_vars, hier_vars,
                   show_controls, camera, held, tick_vars, file_vars>>
PickHeld == {{"="}, {"-"}, {"-", "1"}}
NextPick ==
    \/ \E position \in OpPositions : OpSpawn("cube", position)
    \/ \E keys \in PickHeld, dt \in Dts :
          ("=" \in keys => dt = DtMs) /\ OpMovementKeys(keys, dt)
    \/ \E spot \in CameraSpots : OpLook(spot)
    \/ \E ray_dir \in Rays : OpPick(ray_dir)

SpecPick == Init /\ [][NextPick]_vars

\* ----------------------------------------------------------- scenes directory
\* The scene file on disk: save_scene is followed write by write, an interrupted
\* save ends the process, and load_scene is called on the files of the directory.
session_vars == <<phase, status, engine_vars, scene_vars, counter_vars, editor_vars,
                  hier_vars, show_controls, camera, held, tick_vars>>
RECURSIVE MeshCount(_)
MeshCount(objs) == IF objs = <<>> THEN 0 ELSE Len(Head(objs).meshes) + MeshCount(Tail(objs))

\* save_scene up to open(scene_path, 'w'): the data is built, then the file is
\* opened for writing, which leaves it empty.
OpSaveOpen(path) ==
    /\ Running /\ ~writer.open /\ SaveRoom
    /\ writer' = [path |-> path, data |-> SaveData(scene_objects),
                  before |-> disk[path], open |-> TRUE]
    /\ disk' = [disk EXCEPT ![path] = [whole |-> FALSE, objects |-> <<>>]]
    /\ UNCHANGED <<session_vars, loaded, export_vars>>
\* json.dump(data, f, indent=2) writes the document piece by piece: the next entry.
OpSaveWrite ==
    /\ Running /\ writer.open
    /\ Len(disk[writer.path].objects) < Len(writer.data)
    /\ disk' = [disk EXCEPT ![writer.path].objects =
                    Append(@, writer.data[Len(disk[writer.path].objects) + 1])]
    /\ UNCHANGED <<session_vars, writer, loaded, export_vars>>
\* The last piece closes the document and the with-block closes the file.
OpSaveClose ==
    /\ Running /\ writer.open
    /\ Len(disk[writer.path].objects) = Len(writer.data)
    /\ disk' = [disk EXCEPT ![writer.path].whole = TRUE]
    /\ writer' = [writer EXCEPT !.open = FALSE]
    /\ saves' = Append(saves, writer.path)
    /\ UNCHANGED <<phase, status, engine_vars, scene_vars, counter_vars, editor_vars,
                   hier_vars, show_controls, camera, held, handled, applied, loaded,
                   export_vars>>
\* The save is interrupted while the file is open: the process is killed, or a
\* write raises OSError, which nothing catches.  The file keeps what was written.
SaveInterruptions == {"killed", "OSError"}
OpSaveInterrupted(how) ==
    /\ Running /\ writer.open
    /\ status' = how
    /\ UNCHANGED <<phase, engine_vars, scene_vars, counter_vars, editor_vars, hier_vars,
                   show_controls, camera, held, tick_vars, file_vars>>

\* load_scene: the entries before the first one that raises.
RECURSIVE LoadedPrefix(_)
LoadedPrefix(entries) ==
    IF entries = <<>> \/ EntryRaises(Head(entries)) THEN <<>>
    ELSE <<Head(entries)>> \o LoadedPrefix(Tail(entries))
\* The exception load_scene ends with: json.load on a text that is no document,
\* the model loader on a file it cannot parse, glm.vec3 on a null.
LoadError(file) ==
    IF ~file.whole THEN "JSONDecodeError"
    ELSE IF ~LoadRaises(file.objects) THEN None
    ELSE IF Head(SelectSeq(file.objects, EntryRaises)).scale_ok THEN "ValueError" ELSE "TypeError"
\* One direct load per session.
LoadRoom == loaded = NoLoad
\* A direct call of load_scene(path): it returns the objects or raises; the meshes
\* it made before it raised keep their GPU resources.
OpLoad(path) ==
    /\ Running /\ ~writer.open /\ LoadRoom
    /\ path \in DOMAIN disk
    /\ loaded' = [path |-> path, data |-> disk[path].objects,
                  ok |-> LoadError(disk[path]) = None,
                  error |-> LoadError(disk[path]),
                  objects |-> IF LoadError(disk[path]) = None
                              THEN LoadScene(disk[path].objects, next_mesh) ELSE <<>>]
    /\ next_mesh' = next_mesh + MeshCount(LoadScene(LoadedPrefix(disk[path].objects), next_mesh))
    /\ UNCHANGED <<phase, status, engine_vars, scene_objects, all_renderables, released,
                   released_twice, counter_vars, editor_vars, hier_vars, show_controls,
                   camera, held, tick_vars, disk, writer, export_vars>>
\* A direct assignment obj.alpha = value to the object at index.
OpSetAlpha(index, value) ==
    /\ Running /\ ~writer.open
    /\ index \in 1..Len(scene_objects)
    /\ scene_objects' = [scene_objects EXCEPT ![index] = SetAlpha(@, value)]
    /\ all_renderables' = Renderables(scene_objects')
    /\ UNCHANGED <<phase, status, engine_vars, released, released_twice, next_mesh,
                   counter_vars, editor_vars, hier_vars, show_controls, camera, held,
                   tick_vars, file_vars>>

\* Scene files written by hand: fine values, a light, a rotation, a folder.
PropsFolder == <<"P", "r", "o", "p", "s">>
SceneFileFine ==
    <<EntryAlpha(Entry("pane", "cube", Vec(0, 0, 0), ""), AlphaUnit - 4),
      [EntryFolder(Entry("lamp", "light", Vec(Unit, 2 * Unit, 0), ""), PropsFolder)
          EXCEPT !.has_intensity = TRUE, !.intensity = 2 * ColorUnit + 500,
                 !.has_color = TRUE, !.color = Vec(ColorUnit, 0, 0)]>>
SceneFileTurned ==
    <<EntryRotation(Entry("sign", "triangle", Vec(0, 0, 0), ""), Vec(0, 45, 0)),
      Entry("crate", "obj", Vec(0, 0, 0), CrateModel)>>
DiskScenes == {SceneFileFine, SceneFileTurned, SceneFileBright, SceneFileModels}
\* Other files of the directory: one with a null scale in its second entry, one
\* whose second entry names a model file that does not parse, one with a model
\* file that is missing and one that has no primitives, and one cut short.
HandPath == <<"h", "a", "n", "d">>
HandFileNull ==
    <<Entry("a", "cube", Vec(0, 0, 0), ""),
      EntryNullScale(Entry("b", "cube", Vec(0, 0, 0), "")),
      Entry("c", "cube", Vec(0, 0, 0), "")>>
HandFileTorn ==
    <<Entry("a", "cube", Vec(0, 0, 0), ""),
      Entry("wreck", "obj", Vec(0, 0, 0), TornModel),
      Entry("c", "light", Vec(0, 0, 0), "")>>
HandFileGhost ==
    <<Entry("ghost", "obj", Vec(0, 0, 0), GhostModel),
      Entry("a", "cube", Vec(0, 0, 0), ""),
      EntryNullScale(Entry("gone", "gltf", Vec(0, 0, 0), GhostModel)),
      Entry("void", "obj", Vec(0, 0, 0), EmptyModel),
      Entry("crate", "glb", Vec(0, 0, 0), CrateModel)>>
HandFiles ==
    {SceneFileOf(HandFileNull), SceneFileOf(HandFileTorn), SceneFileOf(HandFileGhost),
     [whole |-> FALSE, objects |-> <<Entry("a", "cube", Vec(0, 0, 0), "")>>]}
DiskAlphas == {AlphaUnit, AlphaUnit - 4, AlphaUnit \div 2}

InitDisk ==
    \E entries \in DiskScenes, hand \in HandFiles :
        InitOn(entries, (SCENE_FILE :> SceneFileOf(entries)) @@ (HandPath :> hand))
NextDisk ==
    \/ \E obj_type \in Kinds : ~writer.open /\ OpSpawn(obj_type, Vec(0, 0, 0))
    \/ \E value \in DiskAlphas : OpSetAlpha(1, value)
    \/ OpSaveOpen(current_scene_file)
    \/ OpSaveWrite
    \/ OpSaveClose
    \/ \E how \in SaveInterruptions : OpSaveInterrupted(how)
    \/ \E path \in DOMAIN disk : OpLoad(path)

SpecDisk == InitDisk /\ [][NextDisk]_vars

\* ------------------------------------------------------------ exports directory
\* A direct call of export_folder_to_obj(folder_name, scene_objects): None before
\* anything is written when no object passes the filter, else the file
\* exports/<safe_name>.obj is written and its path returned.
OpExport(folder_name) ==
    /\ Running
    /\ IF FolderObjects(folder_name, scene_objects) = <<>>
       THEN /\ exported' = [called |-> TRUE, folder |-> folder_name, none |-> TRUE,
                            path |-> <<>>]
            /\ UNCHANGED <<exports, status>>
       ELSE IF ExportRaises(folder_name, scene_objects)
       THEN /\ status' = "IndexError"
            /\ UNCHANGED <<exports, exported>>
       ELSE /\ exports' = [name \in DOMAIN exports \cup {ExportName(folder_name)} |->
                              IF name = ExportName(folder_name)
                              THEN ExportFile(folder_name, scene_objects)
                              ELSE exports[name]]
            /\ exported' = [called |-> TRUE, folder |-> folder_name, none |-> FALSE,
                            path |-> ExportName(folder_name)]
            /\ UNCHANGED status
    /\ UNCHANGED <<phase, engine_vars, scene_vars, counter_vars, editor_vars, hier_vars,
                   show_controls, camera, held, tick_vars, disk, writer, loaded, extracted>>
\* A direct call of _extract_mesh_data(mesh) on a mesh with the given buffer.
OpExtract(vbo) ==
    /\ Running
    /\ extracted' = [called |-> TRUE, vbo |-> vbo, data |-> ExtractMeshData(vbo)]
    /\ UNCHANGED <<session_vars, disk, writer, loaded, exports, exported>>

\* The scenes exported: two objects in "Lights", one of them a light; a folder
\* of lights only; models and primitives in "Props" and "Scene".
LightsFolder == <<"L", "i", "g", "h", "t", "s">>
LampsFolder == <<"L", "a", "m", "p", "s">>
SetFolder == <<"S", "e", "t", " ", "1", "/", "a">>
SceneFileLights ==
    <<EntryFolder(Entry("lamp", "light", Vec(0, 0, 0), ""), LightsFolder),
      EntryFolder(Entry("post", "cube", Vec(Unit, 0, 0), ""), LightsFolder),
      EntryFolder(Entry("bulb", "light", Vec(0, Unit, 0), ""), LampsFolder)>>
SceneFileProps ==
    <<EntryFolder(Entry("crate", "obj", Vec(0, 0, 0), CrateModel), PropsFolder),
      Entry("floor", "cube", Vec(0, 0, 0), ""),
      EntryFolder(Entry("sign", "triangle", Vec(0, 0, 0), ""), PropsFolder),
      EntryFolder(Entry("void", "obj", Vec(0, 0, 0), EmptyModel), SetFolder),
      EntryFolder(Entry("spot", "light", Vec(0, 0, 0), ""), PropsFolder)>>
ExportScenes == {SceneFileLights, SceneFileProps, SceneFileCube}
ExportFolders == {SceneFolder, LightsFolder, LampsFolder, PropsFolder, SetFolder}
\* Buffers handed to _extract_mesh_data: position-only and interleaved, with
\* and without an index buffer.
MaxVerts == 9
Buffers ==
    {Vbo(verts, per_vertex, 0) : verts \in 1..MaxVerts, per_vertex \in {3, 8}}
       \cup {CubeVbo, TriangleVbo, LightOrbVbo, ModelVbo(CrateModel)}

InitExport == \E entries \in ExportScenes : InitWith(entries)
NextExport ==
    \/ \E obj_type \in Kinds : OpSpawn(obj_type, Vec(0, 0, 0))
    \/ \E folder_name \in ExportFolders : OpExport(folder_name)
    \/ \E vbo \in Buffers : OpExtract(vbo)

SpecExport == InitExport /\ [][NextExport]_vars
\* C10: delete with an invalid index, negative or at least the scene length, is a
\* no-op: it does not raise, and the scene, the released meshes, the renderables and
\* the selection it was called with are as before.
C10_InvalidDeleteIsNoOp ==
    [][ \A index \in -1..MaxObjects :
          (index < 0 \/ index >= Len(scene_objects)) /\ OpDelete(index) =>
              /\ status' = status
              /\ UNCHANGED <<scene_objects, released, all_renderables>>
              /\ selected_index' = index
      ]_vars
\* C11: a spawn of a known type at position p appends exactly one object with one
\* new mesh at the end of the scene, at (p.x, p.y + 0.5, p.z) with scale (1,1,1);
\* the objects before it are unchanged and in order, the renderables are the static
\* objects followed by every object's meshes, and the selection is the new last index.
C11_SpawnAppendsOne ==
    [][ \A kind \in Kinds, p \in OpPositions :
          OpSpawn(kind, p) =>
              /\ Len(scene_objects') = Len(scene_objects) + 1
              /\ SubSeq(scene_objects', 1, Len(scene_objects)) = scene_objects
              /\ Len(Last(scene_objects').meshes) = 1
              /\ Last(scene_objects').format = kind
              /\ Last(scene_objects').meshes[1].position = Vec(p[1], p[2] + Unit \div 2, p[3])
              /\ Last(scene_objects').meshes[1].scale = Vec(ScaleUnit, ScaleUnit, ScaleUnit)
              /\ Last(scene_objects').meshes[1].id \notin
                    {all_renderables[i] : i \in 1..Len(all_renderables)} \cup released
              /\ all_renderables' = all_renderables \o <<Last(scene_objects').meshes[1].id>>
              /\ selected_index' = Len(scene_objects') - 1
      ]_vars
\* A triangle was spawned at (1, 0, -1) behind the loaded cube: it is the second
\* object, stands at (1, 0.5, -1) and is selected.
C11_Witness ==
    /\ Len(scene_objects) = 2
    /\ scene_objects[1].format = "cube" /\ tri_counter = 1
    /\ scene_objects[2].format = "triangle"
    /\ ObjPosition(scene_objects[2]) = Vec(Unit, Unit \div 2, -Unit)
    /\ selected_index = 1
    /\ Len(all_renderables) = Len(StaticObjects) + 2

C15_MeshesAgree ==
    \A i \in 1..Len(scene_objects) :
       \A k \in 1..Len(scene_objects[i].meshes) :
          /\ scene_objects[i].meshes[k].position = scene_objects[i].meshes[1].position
          /\ scene_objects[i].meshes[k].scale = scene_objects[i].meshes[1].scale

\* The two-mesh crate has been moved and scaled by held keys and then given a new
\* height through the Y field, next to a spawned triangle.
C15_Witness ==
    /\ Len(scene_objects) = 2
    /\ Len(scene_objects[1].meshes) = 2
    /\ scene_objects[1].meshes[2].position[3] < -100 * Unit
    /\ scene_objects[1].meshes[2].position[2] # 0
    /\ scene_objects[1].meshes[2].scale[1] > ScaleUnit
    /\ tri_counter = 1

\* C16: in every reachable state every scene object's alpha lies in [0, 1] and
\* every mesh's alpha equals its object's alpha: after the load, a spawn, and every
\* alpha written from the Opacity field.
C16_AlphaInRange ==
    \A i \in 1..Len(scene_objects) :
       /\ 0 <= scene_objects[i].alpha /\ scene_objects[i].alpha <= AlphaUnit
       /\ \A k \in 1..Len(scene_objects[i].meshes) :
             scene_objects[i].meshes[k].alpha = scene_objects[i].alpha

C18_SceneFolderStays ==
    [][ /\ SceneFolder \in DOMAIN folders /\ SceneFolder \in DOMAIN folders'
        /\ OpDeleteFolder(SceneFolder) => UNCHANGED <<folders, scene_objects>>
        /\ \A gone \in DOMAIN folders \ {SceneFolder} :
              OpDeleteFolder(gone) \/ gone \notin DOMAIN folders' =>
                 /\ DOMAIN folders' = DOMAIN folders \ {gone}
                 /\ \A n \in DOMAIN folders' : folders'[n] = folders[n]
                 /\ Len(scene_objects') = Len(scene_objects)
                 /\ \A i \in 1..Len(scene_objects) :
                       scene_objects'[i] =
                          IF scene_objects[i].folder = gone
                          THEN [scene_objects[i] EXCEPT !.folder = SceneFolder]
                          ELSE scene_objects[i] ]_vars

\* The folder the cube was moved to has been deleted: the panel still shows its
\* buttons from the last draw, and the cube is back in "Scene".
C18_Witness ==
    /\ phase = "events"
    /\ export_btn_rects = <<SceneFolder, <<"S", "c", "e", "n">>>>
    /\ DOMAIN folders = {SceneFolder}
    /\ Len(scene_objects) = 1 /\ scene_objects[1].folder = SceneFolder

\* C19: the cancel key pressed while a placement is pending and no text input has
\* the focus spawns nothing, sets the placement to none and reverts to the state
\* before the placement was armed: the editor is still in cursor-edit, and the scene
\* and the selection are as they were.
C19_CancelPlacementReverts ==
    [][ placement_mode # None /\ ~TextFocused /\ KeyDown("ESC", FALSE) =>
           /\ placement_mode' = None
           /\ UNCHANGED <<scene_objects, all_renderables, counter_vars, selected_index>>
           /\ cursor_mode /\ cursor_mode' ]_vars

\* C20: the cancel key pressed in a focused property field unfocuses the field and
\* leaves the selected object's properties as they were before the edit began: text
\* typed before the cancel is never committed to the object.  Where no edit is ever
\* confirmed, the selected object has, whenever no field is focused, the values its
\* fields were built with; and the cancel key takes the focus away.
C20_CancelDiscardsTyping ==
    [][ /\ EditorHasActiveInput /\ KeyDown("ESC", FALSE) => ~EditorHasActiveInput'
        /\ \A i \in 1..Len(scene_objects') :
              /\ selected_index' = i - 1
              /\ current_obj_name' = scene_objects'[i].name
              /\ ~EditorHasActiveInput'
              => \A k \in DOMAIN FieldMap(scene_objects'[i]) \cap DOMAIN prop_inputs' :
                    FieldMap(scene_objects'[i])[k] = prop_inputs'[k].value ]_vars

\* C21: while autosave is enabled and dev mode is on, each update adds dt to the
\* autosave timer; in the tick where the timer reaches 30 s exactly one save goes to
\* the current scene file, which is the last save-as path if there is one, and the
\* timer is reset to 0; while autosave is disabled or dev mode is off the timer
\* does not advance and no autosave is performed.
C21_AutosaveTimer ==
    [][ /\ phase = "events" /\ phase' = "render" /\ autosave_enabled /\ dev_mode =>
              \E dt \in Dts :
                 IF autosave_timer + dt < AUTOSAVE_INTERVAL * 1000
                 THEN autosave_timer' = autosave_timer + dt /\ saves' = saves
                 ELSE autosave_timer' = 0 /\ saves' = Append(saves, current_scene_file)
        /\ phase = "events" /\ phase' = "render" /\ ~(autosave_enabled /\ dev_mode) =>
              autosave_timer' = autosave_timer /\ saves' = saves
        /\ phase' = phase => autosave_timer' \in {autosave_timer, 0}
        /\ current_scene_file' # current_scene_file =>
              /\ current_scene_file' = SafeName(save_as_input.text)
              /\ saves' = Append(saves, current_scene_file') ]_vars

\* The autosave has just fired, into the file of an earlier Save As.
C21_Witness ==
    /\ phase = "render"
    /\ autosave_enabled /\ dev_mode /\ autosave_timer = 0
    /\ current_scene_file = <<"m", "y", "_", "l", "e", "v", "e">>
    /\ saves = <<current_scene_file>>

\* C22: in a tick in which a manual save (Ctrl+S, Tab or Save As) was executed the
\* autosave does not also fire: the update of a tick that has already saved adds no
\* save.
C22_NoAutosaveAfterManualSave ==
    [][ phase = "events" /\ phase' = "render" /\ saves # <<>> => saves' = saves ]_vars

\* C23: when a save is interrupted after it has opened its file (the process is
\* killed or a write raises), the file still holds what it held before the save:
\* it is neither empty nor partly written.
C23_InterruptedSaveKeepsOldFile ==
    writer.open /\ status \in SaveInterruptions => disk[writer.path] = writer.before

\* The name and format of each object, and of each entry, in order.
ObjectTags(objs) == [i \in 1..Len(objs) |-> <<objs[i].name, objs[i].format>>]
EntryTags(entries) == [i \in 1..Len(entries) |-> <<entries[i].name, entries[i].format>>]
EntrySound(e) == ~EntryRaises(e)
EntryLoadable(e) == IsPrimitive(e.format) \/ ModelExists(e.model)

\* C24: when one entry of a scene file fails to parse or construct (a malformed
\* field, or an error raised while its model is loaded), load_scene still returns
\* the objects of all the other entries, in file order.
C24_BadEntryDoesNotAbortLoad ==
    loaded.path # <<>> /\ disk[loaded.path].whole /\ LoadRaises(loaded.data) =>
        /\ loaded.ok
        /\ ObjectTags(loaded.objects)
             = EntryTags(SelectSeq(SelectSeq(loaded.data, EntrySound), EntryLoadable))

\* C25: a load that returns holds exactly the entries that are primitives or
\* whose model file exists, in file order: an entry whose model file is missing
\* adds no object and the entries after it are still loaded.
C25_MissingModelSkipped ==
    loaded.ok => ObjectTags(loaded.objects) = EntryTags(SelectSeq(loaded.data, EntryLoadable))
C25_Witness ==
    /\ loaded.ok /\ Len(loaded.objects) = 3
    /\ \E i \in 1..Len(loaded.data) :
          /\ ~EntryLoadable(loaded.data[i])
          /\ \E j \in (i + 1)..Len(loaded.data) : EntryLoadable(loaded.data[j])

\* C26: save(load(save(S))) writes the same entries as save(S), in the same order
\* and with the same name, format, position, scale, color, intensity, model, alpha
\* and folder, and every entry is written with the rotation [0, 0, 0]: when a
\* file written by save_scene is loaded, saving the loaded objects gives the
\* entries of that file again.
C26_SaveLoadSave ==
    loaded.ok /\ writer.path # <<>> /\ ~writer.open /\ loaded.path = writer.path
              /\ loaded.data = writer.data =>
        /\ SaveData(loaded.objects) = loaded.data
        /\ \A i \in 1..Len(loaded.data) : loaded.data[i].rotation = NoRotation

\* C27: save_scene writes an entry's alpha exactly when the object's alpha differs
\* from 1.0 and its folder exactly when the folder differs from "Scene", and
\* loading what it wrote gives every object its alpha (to the three decimals
\* that are written) and its folder again.
C27_AlphaFolderWritten ==
    [][ ~writer.open /\ writer'.open =>
          /\ Len(LoadScene(writer'.data, next_mesh)) = Len(scene_objects)
          /\ \A i \in 1..Len(scene_objects) :
                /\ writer'.data[i].has_alpha <=> scene_objects[i].alpha # AlphaUnit
                /\ writer'.data[i].has_folder <=> scene_objects[i].folder # SceneFolder
                /\ LoadScene(writer'.data, next_mesh)[i].alpha
                      = PyRound(scene_objects[i].alpha, AlphaUnit, 3)
                /\ LoadScene(writer'.data, next_mesh)[i].folder = scene_objects[i].folder ]_vars

\* C28: apply_ui_properties treats each field on its own: in a pass that reads the
\* fields, every position field, scale field and the alpha field whose text is a
\* number is applied to the selected object, whatever the other fields hold.
C28_FieldsIndependent ==
    [][ /\ phase = "events" /\ phase' = "render" /\ cursor_mode /\ dev_mode
        /\ ApplyReads(scene_objects, selected_index, current_obj_name)
        => /\ \A i \in 1..3 :
                 FieldValue(prop_inputs, PosKeys[i], 0, 2).ok =>
                     ObjPosition(scene_objects'[selected_index + 1])[i]
                         = FieldValue(prop_inputs, PosKeys[i],
                                      ObjPosition(scene_objects[selected_index + 1])[i], 2).value
           /\ \A i \in 1..3 :
                 FieldValue(prop_inputs, SclKeys[i], 0, 3).ok =>
                     ObjScale(scene_objects'[selected_index + 1])[i]
                         = FieldValue(prop_inputs, SclKeys[i],
                                      ObjScale(scene_objects[selected_index + 1])[i], 3).value
           /\ ApplyAlpha(scene_objects'[selected_index + 1], prop_inputs)
                 = scene_objects'[selected_index + 1] ]_vars

\* C29: the property panel reassigns an object's folder only in a tick in which
\* the Folder field is not focused: an update that changes the folder of an object
\* changes that of the selected object, to the field's text, with the field not
\* focused; while the field is focused no update changes any object's folder.
C29_FolderAppliedWhenNotFocused ==
    [][ phase = "events" /\ phase' = "render" =>
          /\ Len(scene_objects') = Len(scene_objects)
          /\ \A i \in 1..Len(scene_objects) :
                scene_objects'[i].folder # scene_objects[i].folder =>
                    /\ i = selected_index + 1
                    /\ "folder" \in DOMAIN prop_inputs
                    /\ prop_inputs["folder"].has_field
                    /\ ~prop_inputs["folder"].field.active
                    /\ scene_objects'[i].folder = Strip(prop_inputs["folder"].field.text) ]_vars
\* An update has run while the focused Folder field holds a name that is not the
\* selected object's folder.
C29_Witness ==
    /\ phase = "render" /\ cursor_mode /\ dev_mode
    /\ ApplyReads(scene_objects, selected_index, current_obj_name)
    /\ "folder" \in DOMAIN prop_inputs
    /\ prop_inputs["folder"].has_field
    /\ prop_inputs["folder"].field.active
    /\ Strip(prop_inputs["folder"].field.text) \notin {<<>>, scene_objects[selected_index + 1].folder}

\* C30: a scaling tick with exactly one of the digit keys 1, 2, 3 held multiplies
\* only that axis of the selected object's scale by the tick's factor and leaves
\* the other two axes as they are; with no digit held all three axes are
\* multiplied by the factor.
C30_ScaleAxis ==
    [][ \A keys \in HeldSets, dt \in Dts :
          /\ keys \cap ScaleKeys # {}
          /\ 0 <= selected_index /\ selected_index < Len(scene_objects)
          /\ OpMovementKeys(keys, dt)
          => \A a \in 1..3 :
                ObjScale(scene_objects'[selected_index + 1])[a] =
                    IF keys \cap {AxisKeys[b] : b \in 1..3} \in {{}, {AxisKeys[a]}}
                    THEN (ObjScale(scene_objects[selected_index + 1])[a] * FactorOf(keys, dt))
                             \div ScaleUnit
                    ELSE IF Cardinality(keys \cap {AxisKeys[b] : b \in 1..3}) = 1
                    THEN ObjScale(scene_objects[selected_index + 1])[a]
                    ELSE ObjScale(scene_objects'[selected_index + 1])[a] ]_vars
\* One tick with "-" and "2" held over a stalled frame: only Y is reduced, to 0.01.
C30_Witness ==
    /\ key_moves = 1
    /\ 0 <= selected_index /\ selected_index < Len(scene_objects)
    /\ ObjScale(scene_objects[selected_index + 1]) = Vec(ScaleUnit, ScaleUnit \div Unit, ScaleUnit)

\* C31: scaling down with held keys is floored at 0.01: after any number of
\* scaling ticks with any dt no scale component of any mesh of any object is
\* below 0.01.
C31_ScaleFloor ==
    \A i \in 1..Len(scene_objects) :
       \A k \in 1..Len(scene_objects[i].meshes) :
          \A a \in 1..3 : scene_objects[i].meshes[k].scale[a] >= ScaleUnit \div Unit

\* C32: export(F) returns none and writes no file exactly when no non-light
\* object has folder F; otherwise the file it writes has one named group per
\* non-light object whose folder is F, in scene order, and no group for a light
\* or for an object of another folder.
C32_Exportable(F) ==
    SelectSeq(scene_objects, LAMBDA obj : obj.folder = F /\ obj.is_light = FALSE)
C32_ExportGroups ==
    [][ \A F \in ExportFolders :
           (exported' # exported \/ exports' # exports) /\ exported'.folder = F
           => /\ exported'.none <=> C32_Exportable(F) = <<>>
              /\ exported'.none => exports' = exports
              /\ ~exported'.none
                 => /\ exported'.path \in DOMAIN exports'
                    /\ exports'[exported'.path].folder = F
                    /\ [i \in 1..Len(exports'[exported'.path].groups) |->
                           exports'[exported'.path].groups[i].name]
                         = [i \in 1..Len(C32_Exportable(F)) |-> C32_Exportable(F)[i].name] ]_vars
\* "Lights" holds a light and a cube and was exported: the file has one group.
C32_Witness ==
    /\ exported.called /\ ~exported.none /\ exported.folder = LightsFolder
    /\ \E i \in 1..Len(scene_objects) :
          scene_objects[i].folder = LightsFolder /\ scene_objects[i].is_light
    /\ Len(exports[exported.path].groups) = 1

\* C33: a mesh whose vertex buffer does not have the interleaved 8-float layout
\* is skipped: a position-only mesh, whatever its vertex count, yields no
\* vertices and no faces.
C33_NonInterleavedSkipped ==
    extracted.called /\ extracted.vbo.per_vertex # 8
    => ~extracted.data.ok /\ extracted.data.verts = 0 /\ extracted.data.faces = 0

\* C34: pick returns the index of the object whose sphere (centre = position,
\* radius = max(largest scale component x 50, 5)) has the smallest positive ray
\* parameter among the spheres the ray hits, and -1 when none is hit with a
\* positive parameter; a single object is returned whenever the ray passes
\* through its position.
C34_Radius(obj) ==
    LET scl == ObjScale(obj)
        largest == IF scl[1] >= scl[2] /\ scl[1] >= scl[3] THEN scl[1]
                   ELSE IF scl[2] >= scl[3] THEN scl[2] ELSE scl[3]
    IN  IF largest * 50 * Unit >= 5 * Unit * ScaleUnit
        THEN (largest * 50 * Unit) \div ScaleUnit ELSE 5 * Unit
C34_Hit(ray, i) ==
    RaySphereTest(camera.position, ray, ObjPosition(scene_objects[i]),
                  C34_Radius(scene_objects[i]))
C34_Through(ray, i) ==
    LET t == VDot(VSub(ObjPosition(scene_objects[i]), camera.position), ray)
    IN  t >= 0 /\ VAdd(camera.position, VMul(ray, t)) = ObjPosition(scene_objects[i])
C34_PickNearest ==
    \A ray \in Rays :
       \A idx \in {PickFromRay(camera.position, ray, scene_objects)} :
          /\ idx = -1 <=> \A i \in 1..Len(scene_objects) : C34_Hit(ray, i) = <<>>
          /\ idx # -1
             => /\ idx \in 0..(Len(scene_objects) - 1)
                /\ C34_Hit(ray, idx + 1) # <<>>
                /\ C34_Hit(ray, idx + 1)[1] > 0
                /\ \A j \in 1..Len(scene_objects) :
                      C34_Hit(ray, j) # <<>> => C34_Hit(ray, idx + 1)[1] <= C34_Hit(ray, j)[1]
          /\ Len(scene_objects) = 1 /\ C34_Through(ray, 1) => idx = 0
\* Two spheres are hit and the nearer one is the later object, which is picked.
C34_Witness ==
    \E ray \in Rays :
       /\ Len(scene_objects) >= 2
       /\ C34_Hit(ray, 1) # <<>> /\ C34_Hit(ray, 2) # <<>>
       /\ C34_Hit(ray, 2)[1] < C34_Hit(ray, 1)[1]
       /\ PickFromRay(camera.position, ray, scene_objects) = 1

\* C35: a primary-button click with no placement pending, not on a panel and
\* with dev mode on selects the object picking returns - along the pixel's ray
\* in cursor-edit, along the camera's front in fly-look - and deselects when
\* picking hits nothing; a miss while nothing is selected changes nothing.
C35_Picked(click) ==
    IF cursor_mode THEN PickFromRay(camera.position, click.ray_dir, scene_objects)
    ELSE PickFromRay(camera.position, Front(camera.yaw, camera.pitch), scene_objects)
C35_ClickSelectsPicked ==
    [][ \A click \in ViewClicks :
          /\ click.button = 1
          /\ placement_mode = None /\ dev_mode
          /\ MouseDown(click)
          => /\ C35_Picked(click) >= 0 => selected_index' = C35_Picked(click)
             /\ C35_Picked(click) < 0 => selected_index' = -1
             /\ C35_Picked(click) < 0 /\ selected_index = -1 => UNCHANGED vars
             /\ scene_objects' = scene_objects /\ placement_mode' = None
      ]_vars
\* In fly-look the first of two objects is selected, which only a pick along the
\* camera's front does.
C35_Witness ==
    /\ dev_mode /\ ~cursor_mode /\ placement_mode = None
    /\ Len(scene_objects) >= 2
    /\ selected_index = 0
    /\ PickObject(camera, scene_objects) = 0

\* C36: whenever the mode-toggle key is processed while no text input is
\* focused, dev mode flips, and afterwards cursor mode equals dev mode and the
\* editor panel's visibility equals dev mode: turning it on lands in cursor-edit,
\* turning it off lands in fly-look with the placement cleared.
C36_ToggleLandsInMode ==
    [][ \A ctrl \in BOOLEAN :
          ~TextFocused /\ KeyDown("F1", ctrl)
          => /\ dev_mode' = ~dev_mode
             /\ cursor_mode' = dev_mode'
             /\ ui_visible' = dev_mode'
             /\ ~dev_mode' => placement_mode' = None
      ]_vars
\* Dev mode is off again after a cube was spawned: fly-look, the editor panel
\* hidden, no placement.
C36_Witness ==
    /\ ~dev_mode /\ ~cursor_mode /\ ~ui_visible
    /\ placement_mode = None
    /\ cube_counter >= 1

\* C37: in every reachable state the selection is none (-1) or a valid index
\* into the scene, also when several events are drained in one tick, such as a
\* delete followed by a click on a hierarchy row laid out by the previous draw.
C37_SelectionValid ==
    selected_index = -1 \/ selected_index \in 0..(Len(scene_objects) - 1)

\* C38: while dev mode is off, no input event (a key or a mouse button going
\* down between two frames) changes the selection, the scene, the folder set or
\* an object's folder, transform or colour: also clicks on the hierarchy panel
\* are inert outside dev mode.
C38_InertOutsideDevMode ==
    [][ ~dev_mode /\ phase = "events" /\ phase' = "events"
        => /\ selected_index' = selected_index
           /\ scene_objects' = scene_objects
           /\ DOMAIN folders' = DOMAIN folders
      ]_vars

\* C39: only a primary-button click spawns or changes the selection: a wheel
\* event (a press of button 4 or 5) or another non-primary button over the
\* viewport in cursor-edit spawns nothing, leaves a pending placement pending
\* and leaves the selection alone.
C39_WheelIsInert ==
    [][ \A click \in ViewClicks :
          click.button # 1 /\ cursor_mode /\ MouseDown(click)
          => /\ scene_objects' = scene_objects
             /\ placement_mode' = placement_mode
             /\ selected_index' = selected_index
      ]_vars

\* C40: in every reachable state a focused text input (a property field or the
\* save-as field of the editor, the new-folder input of the hierarchy) or a
\* pending placement implies that dev mode is on, cursor mode is on and the
\* panel that owns the input is visible.
C40_FocusImpliesModes ==
    /\ EditorHasActiveInput \/ placement_mode # None
       => dev_mode /\ cursor_mode /\ ui_visible
    /\ HierHasActiveInput => dev_mode /\ cursor_mode /\ hier_visible

====
